---------------------------- MODULE Spec2Model ----------------------------
(***************************************************************************)
(* A model of the code-analysis engine of DebuggyDuckyMCP:                 *)
(*   - IntelligentCodeAgent (src/enhanced_code_agent.py): entity location, *)
(*     block extraction, structural analysis, the heuristic analyzers and  *)
(*     the report aggregation with its confidence score;                   *)
(*   - MCPAgentServer._line_level_code_analysis                            *)
(*     (src/mcp_agentic_server.py): the line-range context builder.        *)
(*                                                                         *)
(* Source text is a sequence of lines (str.split('\n') always yields at    *)
(* least one line).  A line is a record                                    *)
(*   kind   : "blank" | "comment" | "class" | "def" | "stmt" | "block"     *)
(*            ("block": the header of another compound statement)          *)
(*   indent : the number of leading whitespace characters                  *)
(*   name   : the identifier after class/def ("" when there is none)       *)
(*   marks  : the substrings / syntactic features the analyzers look for   *)
(***************************************************************************)
EXTENDS Integers, Sequences, FiniteSets, TLC

VARIABLES
    \* block extractor applied as a pure function: input text, 0-based start
    \* line, position ("input" | "done") and the extracted lines
    ex_content, ex_start, ex_pc, ex_out,
    \* the file system: path -> [exists, readable, lines], and the order in
    \* which project_root.rglob("*.py") lists the paths
    fs, traversal,
    \* IntelligentCodeAgent instances: id -> [project_root, loaded_modules,
    \* analysis_cache]
    agents,
    \* the wall clock (an index into IsoTimes)
    clock,
    \* the last analyze_code_entity call: its arguments, the agent that
    \* served it and the value it returned (EmptyDict before any call)
    request, served_by, result,
    \* one earlier call, remembered for comparison with the last one
    kept,
    \* line-level analysis: the file on disk, the arguments of the tool call
    \* and the value it returned (EmptyDict before the call)
    ln_file, ln_args, ln_result,
    \* the data models: datetime.utcnow() as a counter, one Task, one
    \* Context and one Agent object, each with a record of the last method
    \* call made on it (EmptyDict before any call)
    utc, task, task_call, ctx, ctx_call, agt, agt_call

ex_vars == <<ex_content, ex_start, ex_pc, ex_out>>

ent_vars == <<fs, traversal, agents, clock, request, served_by, result, kept>>

ln_vars == <<ln_file, ln_args, ln_result>>

mdl_vars == <<utc, task, task_call, ctx, ctx_call, agt, agt_call>>

vars == <<ex_content, ex_start, ex_pc, ex_out,
          fs, traversal, agents, clock, request, served_by, result, kept,
          ln_file, ln_args, ln_result,
          utc, task, task_call, ctx, ctx_call, agt, agt_call>>

(***************************************************************************)
(* Bounds                                                                  *)
(***************************************************************************)
MaxExLines == 3

(***************************************************************************)
(* Lines and text                                                          *)
(***************************************************************************)
NoMarks == {}

Ln(k, i, n, m) == [kind |-> k, indent |-> i, name |-> n, marks |-> m]

Blank(i) == Ln("blank", i, "", NoMarks)

Comment(i) == Ln("comment", i, "", NoMarks)

Stmt(i, m) == Ln("stmt", i, "", m)

Header(k, i, n) == Ln(k, i, n, NoMarks)

\* `not line.strip()`
is_blank(line) == line.kind = "blank"

\* `line.strip().startswith('#')`
is_comment(line) == line.kind = "comment"

\* all sequences over S of length lo..hi
SeqsBetween(S, lo, hi) == UNION {[1..n -> S] : n \in lo..hi}

\* Python values: {} (and the empty text), None, and an absent Optional[str]
EmptyDict == <<>>

NoneValue == [py_none |-> TRUE]

NoneStr == "<None>"

\* `if s:` for an Optional[str]
truthy_str(s) == s # NoneStr /\ s # ""

\* dict.update: the keys of `new` override those of `old`
dict_update(old, new) == new @@ old

Min(S) == CHOOSE m \in S : \A o \in S : m <= o

(***************************************************************************)
(* Block extractor: _extract_full_definition.  start_line is 0-based, as   *)
(* in the code (the count of newlines before the match).                   *)
(***************************************************************************)
\* the loop `for i in range(start_line + 1, len(lines))`, i 0-based
RECURSIVE extract_loop(_, _, _, _)
extract_loop(lines, i, base_indent, extracted_lines) ==
    IF i >= Len(lines) THEN extracted_lines
    ELSE LET line == lines[i + 1] IN
         IF is_blank(line) \/ is_comment(line)
         THEN extract_loop(lines, i + 1, base_indent, Append(extracted_lines, line))
         ELSE IF line.indent <= base_indent /\ ~is_blank(line)
         THEN extracted_lines
         ELSE extract_loop(lines, i + 1, base_indent, Append(extracted_lines, line))

\* variant: the dedent test uses < in place of <=
RECURSIVE extract_loop_strict(_, _, _, _)
extract_loop_strict(lines, i, base_indent, extracted_lines) ==
    IF i >= Len(lines) THEN extracted_lines
    ELSE LET line == lines[i + 1] IN
         IF is_blank(line) \/ is_comment(line)
         THEN extract_loop_strict(lines, i + 1, base_indent, Append(extracted_lines, line))
         ELSE IF line.indent < base_indent
         THEN extracted_lines
         ELSE extract_loop_strict(lines, i + 1, base_indent, Append(extracted_lines, line))

extract_full_definition_strict(lines, start_line) ==
    IF start_line >= Len(lines) THEN <<>>
    ELSE LET def_line == lines[start_line + 1] IN
         extract_loop_strict(lines, start_line + 1, def_line.indent, <<def_line>>)

extract_full_definition(lines, start_line) ==
    IF start_line >= Len(lines) THEN <<>>
    ELSE LET def_line == lines[start_line + 1] IN
         extract_loop(lines, start_line + 1, def_line.indent, <<def_line>>)

(***************************************************************************)
(* Inputs of the block extractor                                           *)
(***************************************************************************)
ExIndents == {0, 1, 2}

ExLines ==
    {Blank(0), Comment(0), Comment(1)}
    \cup {Stmt(i, NoMarks) : i \in ExIndents}
    \cup {Header("def", i, "f") : i \in {0, 1}}

\* the file of the specification's block-extraction example:
\*   def f(): / x = 1 / (blank) / y = 2 / def g(): / pass
ExampleFile ==
    << Header("def", 0, "f"), Stmt(1, NoMarks), Blank(0), Stmt(1, NoMarks),
       Header("def", 0, "g"), Stmt(1, NoMarks) >>

ExInputs == SeqsBetween(ExLines, 1, MaxExLines) \cup {ExampleFile}

ExIdle ==
    /\ ex_content = <<Blank(0)>>
    /\ ex_start = 0
    /\ ex_pc = "input"
    /\ ex_out = <<>>

LineIdle ==
    /\ ln_file = [path |-> [absolute |-> TRUE, parts |-> <<>>], exists |-> FALSE,
                  readable |-> FALSE, lines |-> <<>>]
    /\ ln_args = EmptyDict
    /\ ln_result = EmptyDict

TaskIdle == task = EmptyDict /\ task_call = EmptyDict

ContextIdle == ctx = EmptyDict /\ ctx_call = EmptyDict

AgentIdle == agt = EmptyDict /\ agt_call = EmptyDict

ModelsIdle == utc = 1 /\ TaskIdle /\ ContextIdle /\ AgentIdle

ExInit ==
    /\ ex_content \in ExInputs
    /\ ex_start \in 0..(Len(ex_content) + 1)
    /\ ex_pc = "input"
    /\ ex_out = <<>>

ExtractBlock ==
    /\ ex_pc = "input"
    /\ ex_out' = extract_full_definition(ex_content, ex_start)
    /\ ex_pc' = "done"
    /\ UNCHANGED <<ex_content, ex_start>>
    /\ UNCHANGED <<ent_vars, ln_vars, mdl_vars>>

(***************************************************************************)
(* The project: files, requests, agents                                    *)
(***************************************************************************)
Paths == {"a.py", "b.py"}

AgentIds == {"agent1", "agent2"}

EntityNames == {"A", ""}

MethodNames == {NoneStr, "m"}

File(lines) == [exists |-> TRUE, readable |-> TRUE, lines |-> lines]

AbsentFile == [exists |-> FALSE, readable |-> FALSE, lines |-> <<Blank(0)>>]

UnreadableFile == [exists |-> TRUE, readable |-> FALSE, lines |-> <<Blank(0)>>]

Requests ==
    [entity_name : EntityNames, method_name : MethodNames,
     file_path : Paths \cup {NoneStr}]

(***************************************************************************)
(* Entity locator: _search_in_file, _search_in_project                     *)
(***************************************************************************)
\* rf"^(class|def)\s+{re.escape(entity_name)}\s*[\(\:]" with re.MULTILINE:
\* the keyword starts in column 0 and the name is exact
re_match(line, entity_name) ==
    /\ line.kind \in {"class", "def"}
    /\ line.indent = 0
    /\ line.name = entity_name

\* variant: the last matching definition of the file is taken
search_in_file_last_match(files, file_path, entity_name, method_name) ==
    IF ~files[file_path].exists THEN EmptyDict
    ELSE IF ~files[file_path].readable
    THEN [error |-> "Error reading file"]
    ELSE LET content == files[file_path].lines
             matches == {i \in 0..(Len(content) - 1) :
                            re_match(content[i + 1], entity_name)}
         IN IF matches = {} THEN EmptyDict
            ELSE LET start_line == CHOOSE m \in matches : \A o \in matches : o <= m IN
                 [source_code |-> extract_full_definition(content, start_line),
                  file_path   |-> file_path,
                  start_line  |-> start_line,
                  match_type  |-> content[start_line + 1].kind]

search_in_file(files, file_path, entity_name, method_name) ==
    IF ~files[file_path].exists THEN EmptyDict
    ELSE IF ~files[file_path].readable
    THEN [error |-> "Error reading file"]
    ELSE LET content == files[file_path].lines
             matches == {i \in 0..(Len(content) - 1) :
                            re_match(content[i + 1], entity_name)}
         IN IF matches = {} THEN EmptyDict
            ELSE LET start_line == Min(matches) IN
                 [source_code |-> extract_full_definition(content, start_line),
                  file_path   |-> file_path,
                  start_line  |-> start_line,
                  match_type  |-> content[start_line + 1].kind]

\* the loop over python_files, k the 1-based position in the listing
RECURSIVE search_loop(_, _, _, _, _)
search_loop(files, python_files, k, entity_name, method_name) ==
    IF k > Len(python_files) THEN EmptyDict
    ELSE LET res == search_in_file(files, python_files[k], entity_name, method_name)
         IN IF res # EmptyDict /\ "source_code" \in DOMAIN res
                /\ res.source_code # <<>>
            THEN res
            ELSE search_loop(files, python_files, k + 1, entity_name, method_name)

search_in_project(files, python_files, entity_name, method_name) ==
    search_loop(files, python_files, 1, entity_name, method_name)

(***************************************************************************)
(* Structural analyzer: ast.parse on the extracted block, _find_ast_node,  *)
(* _extract_surrounding_context.  The tree of a block that parses is given *)
(* by its code lines (blank and comment lines dropped) and their           *)
(* indentation; a node is the position of its line among them.             *)
(***************************************************************************)
is_opener(line) == line.kind \in {"class", "def", "block"}

code_lines(block) == SelectSeq(block, LAMBDA l : ~is_blank(l) /\ ~is_comment(l))

\* the tokenizer's indentation stack; stack holds the open levels after
\* line i-1
RECURSIVE indent_ok(_, _, _)
indent_ok(code, i, stack) ==
    IF i > Len(code) THEN ~is_opener(code[Len(code)])
    ELSE LET prev == code[i - 1]
             d    == code[i].indent
             top  == stack[Len(stack)]
         IN IF is_opener(prev)
            THEN d > top /\ indent_ok(code, i + 1, Append(stack, d))
            ELSE IF d > top THEN FALSE
            ELSE LET open == SelectSeq(stack, LAMBDA s : s <= d)
                 IN /\ open # <<>>
                    /\ open[Len(open)] = d
                    /\ indent_ok(code, i + 1, open)

line_ok(line) ==
    /\ "bad" \notin line.marks
    /\ is_opener(line) => line.name # ""

ast_parse(source_code) ==
    LET code == code_lines(source_code) IN
    IF code = <<>> THEN [syntax_error |-> FALSE, code |-> code]
    ELSE IF /\ \A i \in 1..Len(code) : line_ok(code[i])
            /\ code[1].indent = 0
            /\ indent_ok(code, 2, <<0>>)
    THEN [syntax_error |-> FALSE, code |-> code]
    ELSE [syntax_error |-> TRUE, code |-> <<>>]

\* the class/def nodes that enclose node i
ancestors(code, i) ==
    {k \in 1..(i - 1) :
        /\ is_opener(code[k])
        /\ \A m \in (k + 1)..i : code[m].indent > code[k].indent}

\* node.body of a class/def node
body(code, i) ==
    {j \in (i + 1)..Len(code) :
        /\ i \in ancestors(code, j)
        /\ \A k \in ancestors(code, j) : k <= i}

\* ast.walk: breadth first, so by depth and then by position
walk(code) ==
    IF \A i \in 2..Len(code) : ~is_opener(code[i]) /\ code[i].indent > code[1].indent
    THEN \* one class/def and its flat body: the order of the lines
         [i \in 1..Len(code) |-> i]
    ELSE LET depth == [i \in 1..Len(code) |-> Cardinality(ancestors(code, i))]
         IN SortSeq([i \in 1..Len(code) |-> i],
                    LAMBDA a, b : \/ depth[a] < depth[b]
                                  \/ depth[a] = depth[b] /\ a < b)

def_nodes(code) == SelectSeq(walk(code), LAMBDA i : is_opener(code[i]))

Node(code, i) ==
    [line |-> i, kind |-> code[i].kind, name |-> code[i].name,
     body_defs |-> IF code[i].kind # "class" THEN <<>> ELSE
                   LET defs == SelectSeq([k \in 1..Len(code) |-> k],
                                  LAMBDA j : j \in body(code, i) /\ code[j].kind = "def")
                   IN [k \in 1..Len(defs) |-> code[defs[k]].name]]

\* ast.get_docstring: the first statement of the body (in a tree, the next
\* code line) is a string literal
get_docstring(code, i) ==
    is_opener(code[i]) /\ i < Len(code) /\ "doc" \in code[i + 1].marks

\* variant: a method of that name at any depth below the class is taken
find_ast_node_any_depth(tree, entity_name, method_name) ==
    LET code  == tree.code
        named == SelectSeq(def_nodes(code), LAMBDA i : code[i].name = entity_name)
    IN IF named = <<>> THEN NoneValue
       ELSE LET node == named[1]
                methods == {c \in (node + 1)..Len(code) :
                               /\ node \in ancestors(code, c)
                               /\ code[c].kind = "def" /\ code[c].name = method_name}
            IN IF truthy_str(method_name) /\ code[node].kind = "class"
                  /\ methods # {}
               THEN Node(code, Min(methods))
               ELSE Node(code, node)

find_ast_node(tree, entity_name, method_name) ==
    LET code  == tree.code
        named == SelectSeq(def_nodes(code), LAMBDA i : code[i].name = entity_name)
    IN IF named = <<>> THEN NoneValue
       ELSE LET node == named[1]
                methods == {c \in body(code, node) :
                               code[c].kind = "def" /\ code[c].name = method_name}
            IN IF truthy_str(method_name) /\ code[node].kind = "class"
                  /\ methods # {}
               THEN Node(code, Min(methods))
               ELSE Node(code, node)

names_of(code, nodes) == [k \in 1..Len(nodes) |-> code[nodes[k]].name]

extract_surrounding_context(tree, target_node) ==
    LET code == tree.code
        target == IF target_node = NoneValue THEN 0 ELSE target_node.line
    IN [imports   |-> SelectSeq(walk(code),
                                LAMBDA i : "import" \in code[i].marks),
        classes   |-> names_of(code, SelectSeq(walk(code),
                          LAMBDA i : code[i].kind = "class" /\ i # target)),
        functions |-> names_of(code, SelectSeq(walk(code),
                          LAMBDA i : code[i].kind = "def" /\ i # target)),
        constants |-> <<>>,
        decorators |-> <<>>]

default_context(entity_name, method_name) ==
    [entity_name |-> entity_name, method_name |-> method_name,
     source_code |-> <<>>, ast_node |-> NoneValue, file_path |-> "",
     surrounding_context |-> EmptyDict, dependencies |-> <<>>,
     class_hierarchy |-> <<>>, module_info |-> EmptyDict]

load_context(files, python_files, entity_name, method_name, file_path) ==
    LET found == IF truthy_str(file_path)
                 THEN search_in_file(files, file_path, entity_name, method_name)
                 ELSE search_in_project(files, python_files, entity_name, method_name)
        context == dict_update(default_context(entity_name, method_name), found)
    IN IF context.source_code # <<>>
       THEN LET tree == ast_parse(context.source_code) IN
            IF tree.syntax_error
            THEN dict_update(context, [parse_error |-> "SyntaxError"])
            ELSE LET node == find_ast_node(tree, entity_name, method_name) IN
                 dict_update(context,
                     [ast_node |-> node,
                      surrounding_context |-> extract_surrounding_context(tree, node)])
       ELSE context

(***************************************************************************)
(* Text tests of the heuristic analyzers: `mark in source_code` and        *)
(* source_code.count(mark), one occurrence per marked line                 *)
(***************************************************************************)
has(source_code, mark) ==
    \E i \in 1..Len(source_code) : mark \in source_code[i].marks

count(source_code, mark) ==
    Cardinality({i \in 1..Len(source_code) : mark \in source_code[i].marks})

\* character tests on the names of the model
name_len(name) == IF name = "" THEN 0 ELSE 1

first_isupper(name) == name \in {"A"}

islower(name) == name \in {"m", "f", "g"}

has_underscore(name) == FALSE

Value(v) == [raised |-> FALSE, value |-> v]

Raise(e) == [raised |-> TRUE, exc |-> e]

\* context.get("docstring_analysis", {}).get("exists")
docstring_exists(context) ==
    /\ "docstring_analysis" \in DOMAIN context
    /\ "exists" \in DOMAIN context.docstring_analysis
    /\ context.docstring_analysis.exists

(***************************************************************************)
(* Purpose analyzer: _analyze_purpose and its helpers                      *)
(***************************************************************************)
\* name[0] raises IndexError on the empty name
check_naming_convention(name, entity_type) ==
    IF entity_type = "class"
    THEN IF name = "" THEN Raise("IndexError")
         ELSE Value(first_isupper(name) /\ ~has_underscore(name))
    ELSE Value(islower(name) \/ has_underscore(name))

infer_purpose_from_name(name) == "General Purpose"

identify_design_patterns(source_code) ==
    (IF has(source_code, "def __init__") /\ has(source_code, "self.")
     THEN <<"Constructor Pattern">> ELSE <<>>)
    \o (IF has(source_code, "@property") THEN <<"Property Pattern">> ELSE <<>>)
    \o (IF has(source_code, "yield") THEN <<"Generator Pattern">> ELSE <<>>)

extract_api_surface(node) ==
    IF node.kind = "class"
    THEN [public_methods |-> node.body_defs, private_methods |-> <<>>,
          properties |-> <<>>, class_variables |-> <<>>]
    ELSE [public_methods |-> <<>>, private_methods |-> <<>>,
          properties |-> <<>>, class_variables |-> <<>>]

\* the docstring of the first class/def node named entity_name; a block
\* that does not parse leaves docstring_analysis empty (bare except: pass)
docstring_analysis(context) ==
    LET tree == ast_parse(context.source_code)
        code == tree.code
        named == SelectSeq(def_nodes(code),
                           LAMBDA i : code[i].name = context.entity_name)
    IN IF ~tree.syntax_error /\ named # <<>> /\ get_docstring(code, named[1])
       THEN [exists |-> TRUE]
       ELSE EmptyDict

analyze_purpose(context) ==
    LET match_type == IF "match_type" \in DOMAIN context
                      THEN context.match_type ELSE ""
        convention == check_naming_convention(context.entity_name, match_type)
    IN IF convention.raised THEN convention
       ELSE Value(
         [primary_purpose    |-> "Unknown",
          design_patterns    |-> IF match_type = "class"
                                 THEN identify_design_patterns(context.source_code)
                                 ELSE <<>>,
          responsibilities   |-> <<>>,
          api_surface        |-> IF context.ast_node # NoneValue
                                 THEN extract_api_surface(context.ast_node)
                                 ELSE EmptyDict,
          docstring_analysis |-> docstring_analysis(context),
          naming_analysis    |->
              [follows_convention |-> convention.value,
               descriptive        |-> name_len(context.entity_name) > 3,
               suggests_purpose   |-> infer_purpose_from_name(context.entity_name)]])

(***************************************************************************)
(* Behaviour simulation and execution flow: tree walks, empty when the     *)
(* block does not parse                                                    *)
(***************************************************************************)
\* the names of the ast.Call nodes whose func is an ast.Name
function_calls(code) ==
    LET calls == SelectSeq(walk(code),
                     LAMBDA i : code[i].marks \cap {"eval(", "open("} # {})
    IN [k \in 1..Len(calls) |->
           IF "eval(" \in code[calls[k]].marks THEN "eval" ELSE "open"]

simulate_behavior(context) ==
    LET tree == ast_parse(context.source_code) IN
    [state_transitions |-> <<>>,
     error_conditions  |-> <<>>,
     side_effects      |->
         IF tree.syntax_error THEN <<>>
         ELSE SelectSeq(
                [k \in 1..Len(function_calls(tree.code)) |->
                    IF function_calls(tree.code)[k] = "open"
                    THEN "File system modification" ELSE ""],
                LAMBDA s : s # ""),
     input_scenarios   |-> <<"Happy path", "Edge cases", "Error cases">>,
     edge_cases        |-> <<"None/null inputs", "Empty collections",
                             "Very large inputs", "Concurrent access",
                             "Network failures (if applicable)">>,
     performance_characteristics |-> EmptyDict]

analyze_execution_flow(context) ==
    LET tree == ast_parse(context.source_code)
        flow == [entry_points |-> <<>>, execution_path |-> <<>>,
                 decision_points |-> <<>>, loops |-> <<>>,
                 function_calls |-> <<>>, exception_handling |-> <<>>,
                 resource_usage |-> EmptyDict]
    IN IF tree.syntax_error
       THEN dict_update(flow, [parse_error |-> "Could not parse execution flow"])
       ELSE dict_update(flow, [function_calls |-> function_calls(tree.code)])

(***************************************************************************)
(* Risk detection: five text analyzers and the severity map                *)
(***************************************************************************)
LongBlockLines == 50

Finding(t, sev, sug) == [type |-> t, severity |-> sev, suggestion |-> sug]

\* variant: one finding per eval( occurrence
analyze_security_risks_per_call(source_code) ==
    [k \in 1..count(source_code, "eval(") |->
        Finding("Code Injection", "critical",
                "Replace eval() with safer alternatives like ast.literal_eval()")]

analyze_security_risks(source_code) ==
    (IF has(source_code, "eval(")
     THEN <<Finding("Code Injection", "critical",
                    "Replace eval() with safer alternatives like ast.literal_eval()")>>
     ELSE <<>>)
    \o (IF has(source_code, "open(") /\ has(source_code, "w")
        THEN <<Finding("File System Access", "medium",
                       "Validate file paths and implement proper access controls")>>
        ELSE <<>>)

analyze_performance_issues(source_code) ==
    IF count(source_code, "for") > 2 /\ has(source_code, "in")
    THEN <<Finding("Nested Loops", "medium",
                   "Consider optimizing with list comprehensions or vectorized operations")>>
    ELSE <<>>

\* variant: the bare except is rated medium
analyze_correctness_issues_medium(source_code) ==
    IF has(source_code, "except:")
    THEN <<Finding("Broad Exception Handling", "medium",
                   "Catch specific exception types instead of using bare except")>>
    ELSE <<>>

analyze_correctness_issues(source_code) ==
    IF has(source_code, "except:")
    THEN <<Finding("Broad Exception Handling", "high",
                   "Catch specific exception types instead of using bare except")>>
    ELSE <<>>

analyze_maintainability_issues(source_code) ==
    IF Len(source_code) > LongBlockLines
    THEN <<Finding("Long Function/Class", "medium",
                   "Split into smaller, more focused functions or classes")>>
    ELSE <<>>

analyze_reliability_issues(source_code) ==
    IF ~has(source_code, "try:")
       /\ (has(source_code, "requests.") \/ has(source_code, "urllib"))
    THEN <<Finding("Missing Error Handling", "high",
                   "Add try-except blocks around network operations")>>
    ELSE <<>>

SeverityRank(sev) ==
    CASE sev = "critical" -> 4 [] sev = "high" -> 3 [] sev = "medium" -> 2 [] OTHER -> 1

\* variant: a bucket also takes the findings of higher severity
with_severity_at_least(issues, sev) ==
    SelectSeq(issues, LAMBDA f : SeverityRank(f.severity) >= SeverityRank(sev))

with_severity(issues, sev) == SelectSeq(issues, LAMBDA f : f.severity = sev)

identify_risks_and_bugs(context) ==
    LET source_code == context.source_code
        security        == analyze_security_risks(source_code)
        performance     == analyze_performance_issues(source_code)
        correctness     == analyze_correctness_issues(source_code)
        maintainability == analyze_maintainability_issues(source_code)
        reliability     == analyze_reliability_issues(source_code)
        all_issues == security \o performance \o correctness
                      \o maintainability \o reliability
    IN [security_issues        |-> security,
        performance_issues     |-> performance,
        correctness_issues     |-> correctness,
        maintainability_issues |-> maintainability,
        reliability_issues     |-> reliability,
        severity_levels |->
            [critical |-> with_severity(all_issues, "critical"),
             high     |-> with_severity(all_issues, "high"),
             medium   |-> with_severity(all_issues, "medium"),
             low      |-> with_severity(all_issues, "low")]]

(***************************************************************************)
(* Improvement suggestion                                                  *)
(***************************************************************************)
suggestions_of(issues) == [k \in 1..Len(issues) |-> issues[k].suggestion]

suggest_documentation_improvements(context) ==
    (IF ~docstring_exists(context)
     THEN <<"Add comprehensive docstring with purpose, parameters, and return values">>
     ELSE <<>>)
    \o <<"Add type hints for better code clarity",
         "Include usage examples in docstrings",
         "Document any side effects or dependencies">>

prioritize_improvements(immediate_fixes, refactoring_opportunities) ==
    [k \in 1..Len(immediate_fixes) |->
        [improvement |-> immediate_fixes[k], priority |-> "HIGH",
         effort |-> "Low-Medium", impact |-> "High"]]
    \o [k \in 1..Len(refactoring_opportunities) |->
        [improvement |-> refactoring_opportunities[k], priority |-> "MEDIUM",
         effort |-> "Medium", impact |-> "Medium"]]

\* variant: the severity buckets are walked as well
suggest_improvements_with_buckets(context, risk_analysis) ==
    LET listed == risk_analysis.security_issues \o risk_analysis.performance_issues
                  \o risk_analysis.correctness_issues
                  \o risk_analysis.maintainability_issues
                  \o risk_analysis.reliability_issues
                  \o risk_analysis.severity_levels.critical
                  \o risk_analysis.severity_levels.high
                  \o risk_analysis.severity_levels.medium
                  \o risk_analysis.severity_levels.low
        immediate == suggestions_of(SelectSeq(listed,
                         LAMBDA f : f.severity \in {"critical", "high"}))
        refactoring == suggestions_of(SelectSeq(listed,
                         LAMBDA f : f.severity \notin {"critical", "high"}))
    IN [immediate_fixes            |-> immediate,
        refactoring_opportunities  |-> refactoring,
        architectural_improvements |->
            <<"Consider applying SOLID principles",
              "Evaluate if the class/function has a single responsibility",
              "Consider dependency injection for better testability">>,
        testing_recommendations    |->
            <<"Add unit tests for each public method",
              "Include edge case testing",
              "Add integration tests if the code interacts with external systems",
              "Consider property-based testing for complex logic">>,
        documentation_improvements |-> suggest_documentation_improvements(context),
        prioritized_actions        |-> prioritize_improvements(immediate, refactoring)]

\* risk_analysis.items() in insertion order; severity_levels is a dict and
\* is skipped by `isinstance(issues, list)`
suggest_improvements(context, risk_analysis) ==
    LET listed == risk_analysis.security_issues \o risk_analysis.performance_issues
                  \o risk_analysis.correctness_issues
                  \o risk_analysis.maintainability_issues
                  \o risk_analysis.reliability_issues
        immediate == suggestions_of(SelectSeq(listed,
                         LAMBDA f : f.severity \in {"critical", "high"}))
        refactoring == suggestions_of(SelectSeq(listed,
                         LAMBDA f : f.severity \notin {"critical", "high"}))
    IN [immediate_fixes            |-> immediate,
        refactoring_opportunities  |-> refactoring,
        architectural_improvements |->
            <<"Consider applying SOLID principles",
              "Evaluate if the class/function has a single responsibility",
              "Consider dependency injection for better testability">>,
        testing_recommendations    |->
            <<"Add unit tests for each public method",
              "Include edge case testing",
              "Add integration tests if the code interacts with external systems",
              "Consider property-based testing for complex logic">>,
        documentation_improvements |-> suggest_documentation_improvements(context),
        prioritized_actions        |-> prioritize_improvements(immediate, refactoring)]

(***************************************************************************)
(* Clarification questions and confidence score                            *)
(***************************************************************************)
QuestionShortName == "The name is quite short. What does it represent?"

QuestionNoDocs ==
    "This code lacks documentation. What is its intended purpose and usage?"

QuestionBranches ==
    "This code has multiple conditional branches. Are all edge cases handled correctly?"

QuestionErrorHandling ==
    "This code performs operations that might fail. Should error handling be added?"

generate_clarification_questions(context) ==
    LET source_code == context.source_code IN
    (IF name_len(context.entity_name) <= 3 THEN <<QuestionShortName>> ELSE <<>>)
    \o (IF ~docstring_exists(context) THEN <<QuestionNoDocs>> ELSE <<>>)
    \o (IF count(source_code, "if") > 3 THEN <<QuestionBranches>> ELSE <<>>)
    \o (IF ~has(source_code, "try:")
           /\ (has(source_code, "open(") \/ has(source_code, "requests."))
        THEN <<QuestionErrorHandling>> ELSE <<>>)

PointsFound == 30

PointsDocumented == 20

PointsNode == 20

PointsImports == 15

PointsPath == 15

MaxScore == 100

MinOf(a, b) == IF a <= b THEN a ELSE b

\* variant: the tree-node test is negated
calculate_confidence_score_negated(context) ==
    LET score ==
          (IF context.source_code # <<>> THEN PointsFound ELSE 0)
        + (IF context.ast_node = NoneValue THEN PointsNode ELSE 0)
        + (IF context.file_path # "" THEN PointsPath ELSE 0)
    IN MinOf(score, MaxScore)

calculate_confidence_score(context) ==
    LET score ==
          (IF context.source_code # <<>> THEN PointsFound ELSE 0)
        + (IF docstring_exists(context) THEN PointsDocumented ELSE 0)
        + (IF context.ast_node # NoneValue THEN PointsNode ELSE 0)
        + (IF /\ "imports" \in DOMAIN context.surrounding_context
              /\ context.surrounding_context.imports # <<>>
           THEN PointsImports ELSE 0)
        + (IF context.file_path # "" THEN PointsPath ELSE 0)
    IN MinOf(score, MaxScore)

(***************************************************************************)
(* Report aggregator: analyze_code_entity.  The whole body runs inside one *)
(* try / except Exception.                                                 *)
(***************************************************************************)
IsoTimes == <<"2025-01-21T14:30:00Z", "2025-01-21T14:30:01Z",
              "2025-01-21T14:30:02Z", "2025-01-21T14:30:03Z">>

\* variant: the time of the call
analysis_timestamp_now(now) == IsoTimes[now]

\* the report's "analysis_timestamp": a literal, whatever the clock shows
analysis_timestamp(now) == "2025-01-21T14:30:00Z"

\* list(self.project_root.rglob("*.py"))
rglob(agent, listing) == listing

NotFoundSuggestions ==
    <<"Check if the class/method name is spelled correctly",
      "Ensure the file is in the project directory",
      "Try providing the file_path parameter">>

not_found_result(entity_name) ==
    [error |-> "Could not find entity in the codebase",
     suggestions |-> NotFoundSuggestions]

\* variant: the handler lets the exception through
failed_result_reraised(exc, entity_name, method_name, file_path) == Raise(exc)

failed_result(exc, entity_name, method_name, file_path) ==
    [error |-> "Analysis failed", traceback |-> exc,
     debug_info |-> [entity_name |-> entity_name, method_name |-> method_name,
                     file_path |-> file_path]]

analyze_code_entity(agent, files, listing, now, entity_name, method_name, file_path) ==
    LET context == load_context(files, rglob(agent, listing),
                                entity_name, method_name, file_path)
    IN IF context = EmptyDict THEN not_found_result(entity_name)
       ELSE LET purpose == analyze_purpose(context) IN
            IF purpose.raised
            THEN failed_result(purpose.exc, entity_name, method_name, file_path)
            ELSE LET risk_analysis == identify_risks_and_bugs(context) IN
                 [entity_name         |-> entity_name,
                  method_name         |-> method_name,
                  file_location       |-> context.file_path,
                  analysis_timestamp  |-> analysis_timestamp(now),
                  purpose_analysis    |-> purpose.value,
                  behavior_simulation |-> simulate_behavior(context),
                  risk_analysis       |-> risk_analysis,
                  improvements        |-> suggest_improvements(context, risk_analysis),
                  execution_flow      |-> analyze_execution_flow(context),
                  clarification_questions |-> generate_clarification_questions(context),
                  confidence_score    |-> calculate_confidence_score(context)]

(***************************************************************************)
(* Project files of the model                                              *)
(***************************************************************************)
MaxLines == 3

MaxClock == 2

EntLines ==
    { Header("def", 0, "A"), Stmt(0, NoMarks),
      Stmt(1, NoMarks), Stmt(1, {"doc"}), Stmt(1, {"import"}),
      Stmt(1, {"bad"}), Stmt(1, {"eval("}) }

\* class A: / def m(self): / try: / eval(open(p, 'w')) / except: / pass
RiskyClass ==
    << Header("class", 0, "A"), Header("def", 1, "m"),
       Ln("block", 2, "", {"try:"}), Stmt(3, {"eval(", "open(", "w"}),
       Ln("block", 2, "", {"except:"}), Stmt(3, NoMarks) >>

\* def A(): / """doc""" / import requests / two eval() calls on
\* requests.get() results / a top-level statement after the block
NetworkFunction ==
    << Header("def", 0, "A"), Stmt(1, {"doc"}), Stmt(1, {"import"}),
       Stmt(1, {"eval(", "requests."}), Stmt(1, {"eval(", "requests."}),
       Stmt(0, NoMarks) >>

\* `class :` and `def (` : the pattern matches them for the empty name
EmptyNameClass == << Header("class", 0, ""), Stmt(1, NoMarks) >>

EmptyNameDef == << Header("def", 0, ""), Stmt(1, {"eval("}) >>

\* class A: / """doc""" / def m(self): / import os
DocumentedClass ==
    << Header("class", 0, "A"), Stmt(1, {"doc"}), Header("def", 1, "m"),
       Stmt(2, {"import"}) >>

\* x = 1 / def A(): / (blank) / # comment / eval(x) / y = 2
SpacedFunction ==
    << Stmt(0, NoMarks), Header("def", 0, "A"), Blank(0), Comment(0),
       Stmt(1, {"eval("}), Stmt(0, NoMarks) >>

CuratedFiles ==
    {RiskyClass, NetworkFunction, EmptyNameClass, EmptyNameDef, DocumentedClass,
     SpacedFunction}

AFiles ==
    {File(l) : l \in SeqsBetween(EntLines, 1, MaxLines) \cup CuratedFiles}
    \cup {AbsentFile, UnreadableFile}

MaxDetLines == 2

DetLines ==
    { Header("def", 0, "A"), Stmt(1, {"doc"}), Stmt(1, {"bad"}) }

DetAFiles ==
    {File(l) : l \in SeqsBetween(DetLines, 1, MaxDetLines) \cup CuratedFiles}
    \cup {AbsentFile, UnreadableFile}

DetRequests ==
    [entity_name : EntityNames, method_name : {NoneStr},
     file_path : Paths \cup {NoneStr}]

BFiles ==
    {AbsentFile, File(<<Header("def", 0, "A"), Stmt(1, NoMarks)>>),
     File(DocumentedClass)}

Listings == {<<"a.py", "b.py">>, <<"b.py", "a.py">>}

FreshAgent ==
    [project_root |-> ".", loaded_modules |-> EmptyDict, analysis_cache |-> EmptyDict]

EntIdle ==
    /\ fs = [p \in Paths |-> AbsentFile]
    /\ traversal = <<"a.py", "b.py">>
    /\ agents = [a \in AgentIds |-> FreshAgent]
    /\ clock = 1
    /\ request = [entity_name |-> "", method_name |-> NoneStr, file_path |-> NoneStr]
    /\ served_by = "nobody"
    /\ result = EmptyDict
    /\ kept = EmptyDict

EntInit ==
    /\ fs \in {[p \in Paths |-> IF p = "a.py" THEN a ELSE b] :
                  a \in AFiles, b \in BFiles}
    /\ traversal \in Listings
    /\ agents = [a \in AgentIds |-> FreshAgent]
    /\ clock = 1
    /\ request = [entity_name |-> "", method_name |-> NoneStr, file_path |-> NoneStr]
    /\ served_by = "nobody"
    /\ result = EmptyDict
    /\ kept = EmptyDict

Tick(now) == IF now < MaxClock THEN now + 1 ELSE now

\* variant: the agent remembers the value it returned
agent_after_caching(agent, out) == [agent EXCEPT !.analysis_cache = out]

\* the agent object after analyze_code_entity returned `out`: the method and
\* its helpers read self.project_root and assign to no attribute of self
agent_after(agent, out) == agent

AnalyzeCodeEntity(ag, req) ==
    LET out == analyze_code_entity(agents[ag], fs, traversal, clock,
                                   req.entity_name, req.method_name, req.file_path)
    IN  /\ result' = out
        /\ agents' = [agents EXCEPT ![ag] = agent_after(agents[ag], out)]
        /\ request' = req
        /\ served_by' = ag
        /\ clock' = Tick(clock)
        /\ UNCHANGED <<fs, traversal, kept>>
        /\ UNCHANGED <<ex_vars, ln_vars, mdl_vars>>

\* remember the last call, to compare a later one with it
Keep ==
    /\ result # EmptyDict
    /\ kept' = [request |-> request, served_by |-> served_by, result |-> result]
    /\ UNCHANGED <<fs, traversal, agents, clock, request, served_by, result>>
    /\ UNCHANGED <<ex_vars, ln_vars, mdl_vars>>

\* analyze_code_entity applied once to each project and request
EntNext ==
    /\ result = EmptyDict
    /\ \E ag \in AgentIds, req \in Requests : AnalyzeCodeEntity(ag, req)

InitEntity == ExIdle /\ EntInit /\ LineIdle /\ ModelsIdle

SpecEntity == InitEntity /\ [][EntNext]_vars

\* sequences of calls on one unchanged project, by either agent
DetInit ==
    /\ fs \in {[p \in Paths |-> IF p = "a.py" THEN a ELSE b] :
                  a \in DetAFiles, b \in BFiles}
    /\ traversal \in Listings
    /\ agents = [a \in AgentIds |-> FreshAgent]
    /\ clock = 1
    /\ request = [entity_name |-> "", method_name |-> NoneStr, file_path |-> NoneStr]
    /\ served_by = "nobody"
    /\ result = EmptyDict
    /\ kept = EmptyDict

DetNext ==
    \/ \E ag \in AgentIds, req \in DetRequests : AnalyzeCodeEntity(ag, req)
    \/ Keep

InitDet == ExIdle /\ DetInit /\ LineIdle /\ ModelsIdle

SpecDet == InitDet /\ [][DetNext]_vars

InitExtract == ExInit /\ EntIdle /\ LineIdle /\ ModelsIdle

SpecExtract == InitExtract /\ [][ExtractBlock]_vars

(***************************************************************************)
(* Line-level analysis: MCPAgentServer._line_level_code_analysis.          *)
(* line_number, valid_range and the reported ranges are texts: sequences   *)
(* of one-character strings.  A line of the analysed file is one of a few  *)
(* fixed texts; `needle in code` is looked up in the table of the          *)
(* substrings each text contains.                                          *)
(***************************************************************************)
MaxSpecLen == 3

MaxFileLines == 3

DigitChars == <<"0", "1", "2", "3", "4", "5", "6", "7", "8", "9">>

is_digit(c) == \E i \in 1..10 : DigitChars[i] = c

digit_value(c) == (CHOOSE i \in 1..10 : DigitChars[i] = c) - 1

RECURSIVE lstrip(_)
lstrip(s) ==
    IF s # <<>> /\ Head(s) = " " THEN lstrip(Tail(s)) ELSE s

RECURSIVE rstrip(_)
rstrip(s) ==
    IF s # <<>> /\ s[Len(s)] = " " THEN rstrip(SubSeq(s, 1, Len(s) - 1)) ELSE s

strip(s) == rstrip(lstrip(s))

\* str.split(sep) with a one-character separator
RECURSIVE split(_, _)
split(s, sep) ==
    IF \A i \in 1..Len(s) : s[i] # sep
    THEN <<s>>
    ELSE LET k == Min({i \in 1..Len(s) : s[i] = sep})
         IN  <<SubSeq(s, 1, k - 1)>> \o split(SubSeq(s, k + 1, Len(s)), sep)

\* the digits of an int literal: non-empty, "_" only between two digits
digits_ok(s) ==
    /\ s # <<>>
    /\ \A i \in 1..Len(s) :
          \/ is_digit(s[i])
          \/ /\ s[i] = "_"
             /\ 1 < i /\ i < Len(s)
             /\ is_digit(s[i - 1]) /\ is_digit(s[i + 1])

RECURSIVE digits_value(_, _)
digits_value(s, acc) ==
    IF s = <<>> THEN acc
    ELSE IF Head(s) = "_" THEN digits_value(Tail(s), acc)
    ELSE digits_value(Tail(s), acc * 10 + digit_value(Head(s)))

\* int(text): surrounding blanks and one sign are accepted
py_int(s) ==
    LET t == strip(s)
        signed == t # <<>> /\ Head(t) \in {"+", "-"}
        digits == IF signed THEN Tail(t) ELSE t
    IN  IF ~digits_ok(digits) THEN Raise("ValueError")
        ELSE IF signed /\ Head(t) = "-" THEN Value(0 - digits_value(digits, 0))
        ELSE Value(digits_value(digits, 0))

\* f"{n}" for an int
RECURSIVE str(_)
str(n) ==
    IF n < 0 THEN <<"-">> \o str(0 - n)
    ELSE IF n < 10 THEN <<DigitChars[n + 1]>>
    ELSE str(n \div 10) \o <<DigitChars[(n % 10) + 1]>>

\* f"{a}-{b}"
range_text(a, b) == str(a) \o <<"-">> \o str(b)

\* the parse of line_number: start_line, end_line = map(int, split('-')),
\* which raises ValueError also when there are not exactly two parts
parse_line_number(line_number) ==
    IF \E i \in 1..Len(line_number) : line_number[i] = "-"
    THEN LET parts == split(line_number, "-")
             ints == [i \in 1..Len(parts) |-> py_int(parts[i])]
         IN  IF Len(parts) # 2 \/ \E i \in 1..Len(parts) : ints[i].raised
             THEN Raise("ValueError")
             ELSE Value([start_line |-> ints[1].value, end_line |-> ints[2].value])
    ELSE LET n == py_int(line_number)
         IN  IF n.raised THEN Raise("ValueError")
             ELSE Value([start_line |-> n.value, end_line |-> n.value])

\* variant: the lower limit of the validation is dropped
line_out_of_range_upper_only(start_line, total_lines) == start_line > total_lines

\* start_line < 1 or start_line > total_lines
line_out_of_range(start_line, total_lines) ==
    start_line < 1 \/ start_line > total_lines

Max2(a, b) == IF a >= b THEN a ELSE b

\* the texts a line of an analysed file can have
PlainText == "y = compute(x)"

BangText == "val x = y!!"

SafeText == "fun f(p: T?) = p?.x"

SpringText == "import org.springframework.Bean"

SecretText == "Password = sql(q)"

\* the substrings, among those the analysis looks for, that a text contains
Substrings(text) ==
    CASE text = PlainText  -> {"=", "x"}
      [] text = BangText   -> {"=", "val ", "!!", "x"}
      [] text = SafeText   -> {"fun ", "fun", "=", "?.", "?", "x"}
      [] text = SpringText -> {"import ", "import org.springframework"}
      [] text = SecretText -> {"=", "sql"}
      [] OTHER             -> {}

\* the same for text.lower()
LowerSubstrings(text) ==
    IF text = SecretText THEN {"=", "sql", "password"} ELSE Substrings(text)

\* re.findall(r'(val|var)\s+(\w+)', text), second group
kotlin_vars_of(text) == IF text = BangText THEN <<"x">> ELSE <<>>

\* re.findall(r'(\w+)\s*=', text)
python_vars_of(text) ==
    CASE text = PlainText  -> <<"y">>
      [] text = BangText   -> <<"x">>
      [] text = SecretText -> <<"Password">>
      [] OTHER             -> <<>>

\* the words question.lower() contains
QuestionNull == "Why is this variable possibly null?"

QuestionRobust == "How to make this robust?"

QuestionPlain == "What does this line do?"

question_has(question, word) ==
    \/ question = QuestionNull /\ word = "null"
    \/ question = QuestionRobust /\ word = "robust"

\* `needle in code` for code joined from lines (no needle spans two lines)
in_code(needle, code) ==
    \E i \in 1..Len(code) : needle \in Substrings(code[i])

in_lower_code(needle, code) ==
    \E i \in 1..Len(code) : needle \in LowerSubstrings(code[i])

\* code.count(symbol): every text holds a symbol at most once
count_in_code(symbol, code) ==
    Cardinality({i \in 1..Len(code) : symbol \in Substrings(code[i])})

RECURSIVE kotlin_vars(_)
kotlin_vars(code) ==
    IF code = <<>> THEN <<>>
    ELSE kotlin_vars_of(Head(code)) \o kotlin_vars(Tail(code))

RECURSIVE python_vars(_)
python_vars(code) ==
    IF code = <<>> THEN <<>>
    ELSE python_vars_of(Head(code)) \o python_vars(Tail(code))

\* a list that got `item` appended when `cond` held
item_if(cond, item) == IF cond THEN <<item>> ELSE <<>>

\* paths: absolute or relative, a sequence of parts; a file name is
\* [stem, suffix]
FileName(stem, suffix) == [stem |-> stem, suffix |-> suffix]

RelPath(name) == [absolute |-> FALSE, parts |-> <<name>>]

Cwd == <<FileName("work", "")>>

AbsPath(name) == [absolute |-> TRUE, parts |-> Cwd \o <<name>>]

\* Path(file_path), prefixed with Path.cwd() when it is not absolute
resolve_path(file_path) ==
    IF file_path.absolute THEN file_path
    ELSE [absolute |-> TRUE, parts |-> Cwd \o file_path.parts]

path_suffix(path) == path.parts[Len(path.parts)].suffix

\* f"{i:4d}: {line.rstrip()}"
render_line(i, line) == [number |-> i, text |-> line]

\* line.split(':', 1)[1].strip() of a rendered line
code_of(rendered) == [i \in 1..Len(rendered) |-> rendered[i].text]

detect_project_type(file_path, lines) ==
    LET file_ext == path_suffix(file_path)
        content == SubSeq(lines, 1, MinOf(50, Len(lines)))
    IN  IF file_ext = ".kt"
        THEN IF in_code("import org.springframework", content)
             THEN "spring_boot" ELSE "kotlin"
        ELSE IF file_ext = ".java"
        THEN IF \/ in_code("import org.springframework", content)
                \/ in_code("@SpringBootApplication", content)
             THEN "spring_boot" ELSE "java"
        ELSE IF file_ext = ".py"
        THEN IF in_code("from fastapi", content) \/ in_code("import fastapi", content)
             THEN "fastapi"
             ELSE IF in_code("from django", content) \/ in_code("import django", content)
             THEN "django" ELSE "python"
        ELSE IF file_ext \in {".js", ".jsx"}
        THEN IF in_code("import React", content) \/ in_code("from \"react\"", content)
             THEN "react" ELSE "javascript"
        ELSE IF file_ext \in {".ts", ".tsx"}
        THEN IF in_code("import React", content)
             THEN "react_typescript" ELSE "typescript"
        ELSE "unknown"

analyze_code_purpose(target_code, context_code, project_type) ==
    IF in_code("fun ", target_code) \/ in_code("def ", target_code)
    THEN "Function/method definition"
    ELSE IF /\ in_code("=", target_code)
            /\ (in_code("val ", target_code) \/ in_code("var ", target_code))
    THEN "Variable declaration/assignment"
    ELSE IF in_code("@", target_code) THEN "Annotation or decorator"
    ELSE IF in_code("class ", target_code) THEN "Class definition"
    ELSE IF in_code("import ", target_code) THEN "Import statement"
    ELSE IF in_code("if ", target_code) \/ in_code("when ", target_code)
    THEN "Conditional logic"
    ELSE IF in_code("for ", target_code) \/ in_code("while ", target_code)
    THEN "Loop construct"
    ELSE "Statement or expression"

analyze_variables(target_code, target_symbol) ==
    [declared_variables |-> kotlin_vars(target_code) \o python_vars(target_code),
     used_variables |-> <<>>,
     target_symbol_analysis |->
        IF target_symbol # ""
        THEN [symbol |-> target_symbol,
              present_in_code |-> in_code(target_symbol, target_code),
              usage_count |-> count_in_code(target_symbol, target_code),
              context |-> "Analyzing symbol usage patterns"]
        ELSE EmptyDict,
     type_inferences |-> EmptyDict]

analyze_method_context(context_code) ==
    [enclosing_method |->
        IF in_code("fun ", context_code) THEN "Kotlin function detected"
        ELSE IF in_code("def ", context_code) THEN "Python function detected"
        ELSE "Unknown",
     enclosing_class |-> "Unknown",
     access_level |->
        IF /\ ~in_code("fun ", context_code)
           /\ ~in_code("def ", context_code)
           /\ (in_code("public ", context_code) \/ in_code("private ", context_code))
        THEN "Java/Kotlin method detected" ELSE "Unknown",
     parameters |-> <<>>,
     return_type |-> "Unknown"]

analyze_dependencies(context_code, project_type) ==
    IF project_type = "spring_boot"
    THEN item_if(in_code("@Autowired", context_code),
                 "Spring dependency injection detected")
         \o item_if(in_code("@Bean", context_code), "Spring bean configuration")
         \o item_if(in_code("@Service", context_code) \/ in_code("@Component", context_code),
                    "Spring stereotype annotation")
    ELSE <<>>

detect_code_patterns(target_code, project_type) ==
    item_if(in_code("?.", target_code), "Safe call operator (null-safe)")
    \o item_if(in_code("!!", target_code),
               "Not-null assertion operator (potentially unsafe)")
    \o item_if(in_code("try {", target_code) \/ in_code("try:", target_code),
               "Exception handling")
    \o item_if(in_code("lazy", target_code), "Lazy initialization")

simulate_execution_flow(target_code, context_code) ==
    [execution_order |-> "Sequential unless control flow changes",
     potential_branches |->
        IF in_code("if", target_code) THEN "Conditional execution detected"
        ELSE "Linear execution",
     side_effects |->
        IF in_code("=", target_code) THEN "Possible state changes"
        ELSE "Read-only operations"]

simulate_variable_states(target_code, target_symbol) ==
    IF target_symbol # ""
    THEN [initial_state |-> "Unknown",
          after_execution |->
             IF in_code(target_symbol, target_code) /\ in_code("=", target_code)
             THEN "Potentially modified" ELSE "Unchanged",
          nullability |-> "Check null safety patterns"]
    ELSE [note |-> "No target symbol specified"]

analyze_lifecycle(context_code, project_type) ==
    IF project_type = "spring_boot" /\ in_code("@PostConstruct", context_code)
    THEN "Spring bean initialization phase"
    ELSE IF project_type = "spring_boot" /\ in_code("@PreDestroy", context_code)
    THEN "Spring bean destruction phase"
    ELSE "Standard object lifecycle"

simulate_error_scenarios(target_code) ==
    item_if(in_code("!!", target_code), "KotlinNullPointerException if value is null")
    \o item_if(in_code("[", target_code), "IndexOutOfBoundsException possible")
    \o item_if(in_code("/", target_code), "ArithmeticException (division by zero)")

analyze_null_safety(target_code, project_type) ==
    [null_safety_level |->
        IF /\ project_type = "kotlin"
           /\ in_code("?", target_code) /\ in_code("fun", target_code)
        THEN "Nullable types properly declared" ELSE "Unknown",
     risky_operations |->
        item_if(project_type = "kotlin" /\ in_code("!!", target_code),
                "Not-null assertion (!!) - can throw NPE"),
     safe_operations |->
        item_if(project_type = "kotlin" /\ in_code("?.", target_code),
                "Safe call operator (?.) - null-safe")]

analyze_concurrency_risks(target_code, context_code) ==
    item_if(in_code("var ", target_code) /\ in_code("@", context_code),
            "Mutable variable in potentially shared context")
    \o item_if(in_code("synchronized", target_code) \/ in_code("lock", target_code),
               "Explicit synchronization detected")

analyze_performance_concerns(target_code) ==
    item_if(in_code("for", target_code) /\ in_code("for", target_code),
            "Nested loops detected - O(n2) complexity")
    \o item_if(in_code("lazy", target_code), "Lazy initialization - first access cost")

analyze_security_implications(target_code) ==
    item_if(in_lower_code("password", target_code),
            "Password handling detected - ensure proper security")
    \o item_if(in_lower_code("sql", target_code),
               "SQL operations - check for injection vulnerabilities")

suggest_immediate_fixes(target_code, question) ==
    item_if(question_has(question, "null") /\ in_code("!!", target_code),
            "Replace !! with safe call ?. or add null check")
    \o (IF question_has(question, "robust")
        THEN <<"Add error handling with try-catch", "Add input validation">>
        ELSE <<>>)

suggest_robustness_improvements(target_code, project_type) ==
    (IF project_type = "spring_boot"
     THEN <<"Add @Validated annotation for input validation",
            "Consider circuit breaker pattern for external calls">>
     ELSE <<>>)
    \o <<"Add comprehensive error handling", "Include logging for debugging">>

suggest_code_quality_improvements(target_code) ==
    <<"Add meaningful variable names", "Include documentation/comments",
      "Consider extracting complex logic to methods", "Add unit tests for this code">>

suggest_best_practices(target_code, project_type) ==
    IF project_type = "kotlin"
    THEN <<"Use data classes for value objects", "Prefer val over var when possible",
           "Use sealed classes for restricted hierarchies">>
    ELSE IF project_type = "spring_boot"
    THEN <<"Use constructor injection over field injection",
           "Make beans immutable when possible",
           "Use @ConfigurationProperties for configuration">>
    ELSE <<>>

identify_common_issues(target_code, project_type) ==
    item_if(in_code("!!", target_code), "Not-null assertion can cause runtime crashes")
    \o item_if(in_code("var ", target_code),
               "Mutable variables can lead to unexpected state changes")

suggest_debugging_approach(target_code, question) ==
    (IF question_has(question, "null")
     THEN <<"Add null checks and logging before the problematic line",
            "Use debugger to inspect variable states">>
     ELSE <<>>)
    \o <<"Add strategic log statements", "Write unit tests to isolate the issue",
         "Use IDE debugger with breakpoints">>

suggest_test_scenarios(target_code) ==
    <<"Test with valid input values", "Test with null/empty values",
      "Test with boundary conditions", "Test error handling paths">>

suggest_monitoring_points(target_code) ==
    <<"Add metrics for execution time", "Monitor error rates",
      "Track method call frequency", "Alert on unexpected null values">>

\* the verdict texts; the first one carries the count it is formatted with
VerdictAttention(null_risks) == <<"ATTENTION NEEDED", null_risks>>

VerdictRisky == <<"RISKY CODE">>

VerdictPass == <<"CODE REVIEW">>

\* variant: only the count of null-safety risks decides
generate_engineer_verdict_by_count(target_code, question, analysis) ==
    LET null_risks == Len(analysis.risk_assessment.null_safety.risky_operations)
    IN  IF null_risks > 0 THEN VerdictAttention(null_risks)
        ELSE VerdictPass

generate_engineer_verdict(target_code, question, analysis) ==
    LET null_risks == Len(analysis.risk_assessment.null_safety.risky_operations)
    IN  IF null_risks > 0 THEN VerdictAttention(null_risks)
        ELSE IF in_code("!!", target_code) THEN VerdictRisky
        ELSE VerdictPass

\* _analyze_target_lines; question.lower() raises AttributeError when the
\* question is None
analyze_target_lines(target_lines, context_before, context_after, target_symbol, question, project_type, file_path) ==
    LET target_code == code_of(target_lines)
        context_code == code_of(context_before \o target_lines \o context_after)
        analysis ==
          [engineer_analysis |->
             [code_purpose |-> analyze_code_purpose(target_code, context_code, project_type),
              variable_analysis |-> analyze_variables(target_code, target_symbol),
              method_context |-> analyze_method_context(context_code),
              dependencies |-> analyze_dependencies(context_code, project_type),
              patterns_detected |-> detect_code_patterns(target_code, project_type)],
           runtime_simulation |->
             [execution_flow |-> simulate_execution_flow(target_code, context_code),
              variable_states |-> simulate_variable_states(target_code, target_symbol),
              lifecycle_analysis |-> analyze_lifecycle(context_code, project_type),
              error_scenarios |-> simulate_error_scenarios(target_code)],
           risk_assessment |->
             [null_safety |-> analyze_null_safety(target_code, project_type),
              concurrency_risks |-> analyze_concurrency_risks(target_code, context_code),
              performance_concerns |-> analyze_performance_concerns(target_code),
              security_implications |-> analyze_security_implications(target_code)],
           improvements |->
             [immediate_fixes |-> suggest_immediate_fixes(target_code, question),
              robustness_improvements |->
                 suggest_robustness_improvements(target_code, project_type),
              code_quality |-> suggest_code_quality_improvements(target_code),
              best_practices |-> suggest_best_practices(target_code, project_type)],
           debugging_insights |->
             [common_issues |-> identify_common_issues(target_code, project_type),
              debugging_approach |-> suggest_debugging_approach(target_code, question),
              test_scenarios |-> suggest_test_scenarios(target_code),
              monitoring_points |-> suggest_monitoring_points(target_code)]]
    IN  IF question = NoneStr THEN Raise("AttributeError")
        ELSE Value(analysis @@
                   [verdict |-> generate_engineer_verdict(target_code, question, analysis)])

DefaultContextLines == 20

ShownContextLines == 10

\* None where a text is expected
NoneText == <<NoneStr>>

\* arguments.get(key, default)
arg(arguments, key, default) ==
    IF key \in DOMAIN arguments THEN arguments[key] ELSE default

file_not_found(file_path, file_path_obj) ==
    [FILE_NOT_FOUND |-> <<"Could not locate file:", file_path>>,
     attempted_paths |-> <<file_path_obj>>,
     suggestions |-> <<"Check if the file path is correct",
                       "Ensure the file exists on your machine",
                       "Try using an absolute path",
                       "Verify file permissions">>]

ExpectedFormat == "Single line (e.g., '42') or range (e.g., '42-45')"

invalid_line_number(line_number) ==
    [INVALID_LINE_NUMBER |-> <<"Could not parse line number:", line_number>>,
     expected_format |-> ExpectedFormat]

file_read_error(file_path_obj) ==
    [FILE_READ_ERROR |-> <<"Could not read file:", "PermissionError">>,
     file_path |-> file_path_obj]

line_out_of_range_result(start_line, total_lines) ==
    [LINE_OUT_OF_RANGE |-> <<"Line", str(start_line), "is out of range (file has",
                             str(total_lines), "lines)">>,
     valid_range |-> range_text(1, total_lines)]

analysis_failed(exc, file_path, line_number, target_symbol) ==
    [ANALYSIS_FAILED |-> exc,
     error_type |-> exc,
     debug_info |-> [file_path |-> file_path, line_number |-> line_number,
                     target_symbol |-> target_symbol],
     senior_engineer_advice |->
        <<"This error suggests an issue with file access or parsing",
          "Check if the file path is accessible and readable",
          "Ensure the line number format is correct",
          "Try with a simpler file first to verify the system">>]

\* the last / the first ShownContextLines of a context list
last_shown(context) ==
    IF Len(context) > ShownContextLines
    THEN SubSeq(context, Len(context) - ShownContextLines + 1, Len(context))
    ELSE context

first_shown(context) ==
    IF Len(context) > ShownContextLines
    THEN SubSeq(context, 1, ShownContextLines)
    ELSE context

\* _line_level_code_analysis on the file system holding `file`
line_level_code_analysis(file, arguments) ==
    LET file_path == arg(arguments, "file_path", NoneValue)
        line_number == arg(arguments, "line_number", NoneText)
        target_symbol == arg(arguments, "target_symbol", "")
        question == arg(arguments, "question", NoneStr)
        context_lines == arg(arguments, "context_lines", DefaultContextLines)
        requested_type == arg(arguments, "project_type", "auto_detect")
        file_path_obj == resolve_path(file_path)
        parsed == parse_line_number(line_number)
        start_line == parsed.value.start_line
        end_line == parsed.value.end_line
        lines == file.lines
        total_lines == Len(lines)
        context_start == Max2(1, start_line - context_lines)
        context_end == MinOf(total_lines, end_line + context_lines)
        numbered == [i \in 1..total_lines |-> render_line(i, lines[i])]
        is_before(r) == context_start <= r.number /\ r.number < start_line
        is_target(r) == start_line <= r.number /\ r.number <= end_line
        is_after(r) == /\ ~is_before(r) /\ ~is_target(r)
                       /\ end_line < r.number /\ r.number <= context_end
        context_before == SelectSeq(numbered, is_before)
        target_lines == SelectSeq(numbered, is_target)
        context_after == SelectSeq(numbered, is_after)
        project_type == IF requested_type = "auto_detect"
                        THEN detect_project_type(file_path_obj, lines)
                        ELSE requested_type
        analysis == analyze_target_lines(target_lines, context_before, context_after,
                                         target_symbol, question, project_type,
                                         file_path_obj)
    IN  IF file_path = NoneValue      \* Path(None)
        THEN analysis_failed("TypeError", file_path, line_number, target_symbol)
        ELSE IF ~(file.exists /\ file.path = file_path_obj)
        THEN file_not_found(file_path, file_path_obj)
        ELSE IF line_number = NoneText    \* '-' in None
        THEN analysis_failed("TypeError", file_path, line_number, target_symbol)
        ELSE IF parsed.raised THEN invalid_line_number(line_number)
        ELSE IF ~file.readable THEN file_read_error(file_path_obj)
        ELSE IF line_out_of_range(start_line, total_lines)
        THEN line_out_of_range_result(start_line, total_lines)
        ELSE IF analysis.raised
        THEN analysis_failed(analysis.exc, file_path, line_number, target_symbol)
        ELSE [LINE_LEVEL_INTELLIGENT_ANALYSIS |-> "=== SENIOR ENGINEER + CODE SIMULATOR ===",
              agent_role |-> "Senior Software Engineer & Dynamic Code Simulator",
              analysis_target |-> <<file_path, line_number>>,
              LOCATION_CONTEXT |->
                 [file_path |-> file_path_obj,
                  target_lines |-> range_text(start_line, end_line),
                  total_file_lines |-> total_lines,
                  context_range |-> range_text(context_start, context_end),
                  project_type |-> project_type,
                  target_symbol |-> IF target_symbol # "" THEN target_symbol
                                    ELSE "None specified"],
              YOUR_QUESTION |-> question,
              CODE_CONTEXT |->
                 [lines_before |-> last_shown(context_before),
                  target_lines |-> target_lines,
                  lines_after |-> first_shown(context_after)],
              SENIOR_ENGINEER_ANALYSIS |-> analysis.value.engineer_analysis,
              RUNTIME_SIMULATION |-> analysis.value.runtime_simulation,
              RISK_ASSESSMENT |-> analysis.value.risk_assessment,
              TARGETED_IMPROVEMENTS |-> analysis.value.improvements,
              DEBUGGING_INSIGHTS |-> analysis.value.debugging_insights,
              ENGINEERS_VERDICT |-> analysis.value.verdict]

\* the analysed files and the requests
ConfigKt == FileName("Config", ".kt")

AppPy == FileName("app", ".py")

LineFile(name, lines) ==
    [path |-> AbsPath(name), exists |-> TRUE, readable |-> TRUE, lines |-> lines]

MissingLineFile ==
    [path |-> AbsPath(ConfigKt), exists |-> FALSE, readable |-> FALSE, lines |-> <<>>]

UnreadableLineFile ==
    [path |-> AbsPath(ConfigKt), exists |-> TRUE, readable |-> FALSE, lines |-> <<>>]

FiftyLineFile == LineFile(ConfigKt, [i \in 1..50 |-> IF i = 25 THEN BangText ELSE PlainText])

SpringFile == LineFile(ConfigKt, <<SpringText, BangText, SafeText>>)

PythonFile == LineFile(AppPy, <<PlainText, SecretText>>)

GenericTexts == {PlainText, BangText}

LineFiles ==
    {LineFile(ConfigKt, l) : l \in SeqsBetween(GenericTexts, 0, MaxFileLines)}
    \cup {MissingLineFile, UnreadableLineFile, FiftyLineFile, SpringFile, PythonFile}

SpecChars == {"0", "1", "3", "5", "-", "a"}

LineSpecs ==
    SeqsBetween(SpecChars, 1, MaxSpecLen)
    \cup {<<"9", "9", "9", "9", "9", "9">>, <<" ", "3">>, <<"2", "5">>}

CoreSpecs == {<<"1">>, <<"3">>, <<"1", "-", "3">>, <<"3", "-", "1">>, <<"2", "5">>}

OptionalArgument(key, values) == {EmptyDict} \cup {[k \in {key} |-> v] : v \in values}

LineRequests(file) ==
    LET name == file.path.parts[Len(file.path.parts)]
    IN  {[file_path |-> RelPath(name), line_number |-> s, question |-> QuestionPlain] :
            s \in LineSpecs}
        \cup
        {[file_path |-> p, line_number |-> s] @@ q @@ c @@ t @@ y :
            p \in {RelPath(name), AbsPath(name), RelPath(AppPy)},
            s \in CoreSpecs,
            q \in OptionalArgument("question", {QuestionNull, QuestionRobust}),
            c \in OptionalArgument("context_lines", {0, 1, 1000}),
            t \in OptionalArgument("project_type", {"kotlin", "spring_boot"}),
            y \in OptionalArgument("target_symbol", {"x"})}

LineInit ==
    /\ ln_file \in LineFiles
    /\ ln_args = EmptyDict
    /\ ln_result = EmptyDict

\* one tool call "line_level_code_analysis"
LineLevelCodeAnalysis(arguments) ==
    /\ ln_args' = arguments
    /\ ln_result' = line_level_code_analysis(ln_file, arguments)
    /\ UNCHANGED ln_file
    /\ UNCHANGED <<ex_vars, ent_vars, mdl_vars>>

\* applied once to each file and request
LineNext ==
    /\ ln_result = EmptyDict
    /\ \E arguments \in LineRequests(ln_file) : LineLevelCodeAnalysis(arguments)

InitLine == ExIdle /\ EntIdle /\ LineInit /\ ModelsIdle

SpecLine == InitLine /\ [][LineNext]_vars

(***************************************************************************)
(* Both entry points on inputs that make a stage fail: a missing or        *)
(* unreadable file, a block that does not parse, a name the naming check   *)
(* fails on, missing or malformed arguments of the tool call.              *)
(***************************************************************************)
FailureProjects ==
    {[p \in Paths |-> IF p = "a.py" THEN a ELSE AbsentFile] :
        a \in {AbsentFile, UnreadableFile, File(EmptyNameClass), File(RiskyClass),
               File(DocumentedClass),
               File(<<Header("def", 0, "A"), Stmt(1, {"bad"})>>)}}

FailureLineFiles ==
    {MissingLineFile, UnreadableLineFile, SpringFile, PythonFile, LineFile(ConfigKt, <<>>)}

FailureLineSpecs ==
    {<<"1">>, <<"9">>, <<"a">>, <<"5", "-", "3">>, <<"1", "-", "a">>}

FailureLineRequests(file) ==
    LET name == file.path.parts[Len(file.path.parts)]
    IN  {f @@ n @@ q @@ c :
            f \in OptionalArgument("file_path", {RelPath(name)}),
            n \in OptionalArgument("line_number", FailureLineSpecs),
            q \in OptionalArgument("question", {QuestionNull}),
            c \in OptionalArgument("context_lines", {0})}

InitCalls ==
    /\ ExIdle
    /\ fs \in FailureProjects
    /\ traversal = <<"a.py", "b.py">>
    /\ agents = [a \in AgentIds |-> FreshAgent]
    /\ clock = 1
    /\ request = [entity_name |-> "", method_name |-> NoneStr, file_path |-> NoneStr]
    /\ served_by = "nobody"
    /\ result = EmptyDict
    /\ kept = EmptyDict
    /\ ln_file \in FailureLineFiles
    /\ ln_args = EmptyDict
    /\ ln_result = EmptyDict
    /\ ModelsIdle

\* each entry point is called once, in either order
CallsNext ==
    \/ /\ result = EmptyDict
       /\ \E ag \in AgentIds, req \in Requests : AnalyzeCodeEntity(ag, req)
    \/ /\ ln_result = EmptyDict
       /\ \E arguments \in FailureLineRequests(ln_file) : LineLevelCodeAnalysis(arguments)

SpecCalls == InitCalls /\ [][CallsNext]_vars

(***************************************************************************)
(* Data models: Task                                                       *)
(***************************************************************************)
MaxUtc == 3
MaxRetries == 2

\* an Optional field: None, or a value
NoneOpt == <<>>

Some(v) == <<v>>

\* successive datetime.utcnow() readings: the counter, then the counter after
\* it (time stands still at MaxUtc)
After(t) == IF t < MaxUtc THEN t + 1 ELSE t

TaskStatus ==
    {"pending", "assigned", "in_progress", "completed", "failed", "cancelled", "timeout"}

TerminalStatus == {"completed", "failed", "cancelled", "timeout"}

TaskResult(success, output, error_message) ==
    [success |-> success, output |-> output, error_message |-> error_message]

ErrorMessages == {"Error", "Something went wrong"}

TaskResults ==
    {TaskResult(TRUE, "Success!", NoneStr), TaskResult(FALSE, "partial", "exit 1")}

\* variant: every transition stamps its timestamp anew
update_status_always_stamps(self, status, t) ==
    LET stamped == [self EXCEPT !.status = status, !.updated_at = t]
    IN  IF status = "in_progress"
        THEN [stamped EXCEPT !.started_at = Some(After(t))]
        ELSE IF status \in TerminalStatus
        THEN [stamped EXCEPT !.completed_at = Some(After(t))]
        ELSE stamped

\* a model is truthy and a datetime is truthy, so `not x` is `x is None`
update_status(self, status, t) ==
    LET stamped == [self EXCEPT !.status = status, !.updated_at = t]
    IN  IF status = "in_progress" /\ self.started_at = NoneOpt
        THEN [stamped EXCEPT !.started_at = Some(After(t))]
        ELSE IF status \in TerminalStatus /\ self.completed_at = NoneOpt
        THEN [stamped EXCEPT !.completed_at = Some(After(t))]
        ELSE stamped

assign_agent(self, agent_id, t) ==
    update_status([self EXCEPT !.assigned_agent_id = Some(agent_id)], "assigned", t)

start_execution(self, t) == update_status(self, "in_progress", t)

complete_successfully(self, res, t) ==
    update_status([self EXCEPT !.result = Some(res)], "completed", t)

\* variant used to show that the stored result depends on fail
fail_without_result(self, error_message, res, t) == update_status(self, "failed", t)

\* res is NoneOpt when the caller passes no result
fail(self, error_message, res, t) ==
    update_status([self EXCEPT !.result =
                      IF res # NoneOpt THEN res
                      ELSE Some(TaskResult(FALSE, NoneStr, error_message))],
                  "failed", t)

cancel(self, t) == update_status(self, "cancelled", t)

timeout(self, t) == update_status(self, "timeout", t)

\* variant: any task below its retry limit can be retried
can_retry_any_status(self) == self.retry_count < self.max_retries

can_retry(self) ==
    self.status \in {"failed", "timeout"} /\ self.retry_count < self.max_retries

\* variant used to show that the retry budget depends on the guard of
\* increment_retry
increment_retry_unchecked(self, t) ==
    [raised |-> FALSE,
     self |-> [update_status([self EXCEPT !.retry_count = @ + 1], "pending", t)
                   EXCEPT !.started_at = NoneOpt, !.completed_at = NoneOpt]]

\* the object after the call, and whether the call raised
increment_retry(self, t) ==
    IF ~can_retry(self)
    THEN [raised |-> TRUE, exc |-> "ValueError", self |-> self]
    ELSE [raised |-> FALSE,
          self |-> [update_status([self EXCEPT !.retry_count = @ + 1], "pending", t)
                        EXCEPT !.started_at = NoneOpt, !.completed_at = NoneOpt]]

\* Task(...) as constructed: status, retry_count and max_retries may be given
NewTasks ==
    [status : TaskStatus, retry_count : 0..MaxRetries, max_retries : 0..MaxRetries,
     assigned_agent_id : {NoneOpt}, result : {NoneOpt}, updated_at : {1},
     started_at : {NoneOpt}, completed_at : {NoneOpt}]

TaskInit ==
    /\ utc = 1
    /\ task \in NewTasks
    /\ task_call = EmptyDict
    /\ ContextIdle /\ AgentIdle

TaskCall(op, args, raised, after) ==
    /\ task' = after
    /\ task_call' = [op |-> op, args |-> args, before |-> task, raised |-> raised]
    /\ utc' = After(After(utc))
    /\ UNCHANGED <<ctx, ctx_call, agt, agt_call>>
    /\ UNCHANGED <<ex_vars, ent_vars, ln_vars>>

UpdateStatus(status) ==
    TaskCall("update_status", <<status>>, FALSE, update_status(task, status, utc))

AssignAgent(agent_id) ==
    TaskCall("assign_agent", <<agent_id>>, FALSE, assign_agent(task, agent_id, utc))

StartExecution == TaskCall("start_execution", <<>>, FALSE, start_execution(task, utc))

CompleteSuccessfully(res) ==
    TaskCall("complete_successfully", <<res>>, FALSE, complete_successfully(task, res, utc))

Fail(error_message, res) ==
    TaskCall("fail", <<error_message, res>>, FALSE, fail(task, error_message, res, utc))

Cancel == TaskCall("cancel", <<>>, FALSE, cancel(task, utc))

Timeout == TaskCall("timeout", <<>>, FALSE, timeout(task, utc))

IncrementRetry ==
    LET out == increment_retry(task, utc)
    IN  TaskCall("increment_retry", <<>>, out.raised, out.self)

TaskNext ==
    \/ \E status \in TaskStatus : UpdateStatus(status)
    \/ AssignAgent("agent-1")
    \/ StartExecution
    \/ \E res \in TaskResults : CompleteSuccessfully(res)
    \/ \E error_message \in ErrorMessages, res \in {NoneOpt} \cup {Some(r) : r \in TaskResults} :
          Fail(error_message, res)
    \/ Cancel
    \/ Timeout
    \/ IncrementRetry

InitTask == ExIdle /\ EntIdle /\ LineIdle /\ TaskInit

SpecTask == InitTask /\ [][TaskNext]_vars

\* tasks constructed with 0 <= retry_count <= max_retries
RetryInit ==
    /\ utc = 1
    /\ task \in {t \in NewTasks : t.retry_count <= t.max_retries}
    /\ task_call = EmptyDict
    /\ ContextIdle /\ AgentIdle

InitRetry == ExIdle /\ EntIdle /\ LineIdle /\ RetryInit

SpecRetry == InitRetry /\ [][TaskNext]_vars

\* tasks constructed in the default status PENDING
FreshTaskInit ==
    /\ utc = 1
    /\ task \in {t \in NewTasks : t.status = "pending"}
    /\ task_call = EmptyDict
    /\ ContextIdle /\ AgentIdle

InitFreshTask == ExIdle /\ EntIdle /\ LineIdle /\ FreshTaskInit

SpecFreshTask == InitFreshTask /\ [][TaskNext]_vars

(***************************************************************************)
(* Data models: Context                                                    *)
(***************************************************************************)
MaxVersion == 4

ContextKeys == {"current_file", "test_var"}

ContextValues == {"main.py", "test_value"}

\* d[key] = value
dict_set(d, key, value) ==
    [k \in DOMAIN d \cup {key} |-> IF k = key THEN value ELSE d[k]]

\* del d[key]
dict_del(d, key) == [k \in DOMAIN d \ {key} |-> d[k]]

\* d.get(key, default)
dict_get(d, key, default) == IF key \in DOMAIN d THEN d[key] ELSE default

update_timestamp(self, t) == [self EXCEPT !.updated_at = t, !.accessed_at = t]

access(self, t) == [self EXCEPT !.accessed_at = t]

increment_version(self, t) ==
    update_timestamp([self EXCEPT !.version = @ + 1], t)

set_variable(self, key, value, t) ==
    [self |-> increment_version([self EXCEPT !.variables = dict_set(@, key, value)], t),
     value |-> NoneValue]

get_variable(self, key, default, t) ==
    [self |-> access(self, t), value |-> dict_get(self.variables, key, default)]

\* variant: the version is raised whether or not the key exists
remove_variable_always_bumps(self, key, t) ==
    [self |-> increment_version([self EXCEPT !.variables = dict_del(@, key)], t),
     value |-> key \in DOMAIN self.variables]

remove_variable(self, key, t) ==
    IF key \in DOMAIN self.variables
    THEN [self |-> increment_version([self EXCEPT !.variables = dict_del(@, key)], t),
          value |-> TRUE]
    ELSE [self |-> self, value |-> FALSE]

set_data(self, key, value, t) ==
    [self |-> increment_version([self EXCEPT !.data = dict_set(@, key, value)], t),
     value |-> NoneValue]

get_data(self, key, default, t) ==
    [self |-> access(self, t), value |-> dict_get(self.data, key, default)]

remove_data(self, key, t) ==
    IF key \in DOMAIN self.data
    THEN [self |-> increment_version([self EXCEPT !.data = dict_del(@, key)], t),
          value |-> TRUE]
    ELSE [self |-> self, value |-> FALSE]

\* Context(...) as constructed: version 1, variables and data as given
NewContexts ==
    [variables : {EmptyDict, [current_file |-> "main.py"]},
     data : {EmptyDict, [current_file |-> "main.py"]},
     version : {1}, updated_at : {1}, accessed_at : {1}]

ContextInit ==
    /\ utc = 1
    /\ ctx \in NewContexts
    /\ ctx_call = EmptyDict
    /\ TaskIdle /\ AgentIdle

\* one method call; the version is kept within MaxVersion
ContextCall(op, key, out) ==
    /\ out.self.version <= MaxVersion
    /\ ctx' = out.self
    /\ ctx_call' = [op |-> op, key |-> key, before |-> ctx, returned |-> out.value]
    /\ utc' = After(utc)
    /\ UNCHANGED <<task, task_call, agt, agt_call>>
    /\ UNCHANGED <<ex_vars, ent_vars, ln_vars>>

SetVariable(key, value) ==
    ContextCall("set_variable", key, set_variable(ctx, key, value, utc))

GetVariable(key) ==
    ContextCall("get_variable", key, get_variable(ctx, key, NoneStr, utc))

RemoveVariable(key) ==
    ContextCall("remove_variable", key, remove_variable(ctx, key, utc))

SetData(key, value) == ContextCall("set_data", key, set_data(ctx, key, value, utc))

GetData(key) == ContextCall("get_data", key, get_data(ctx, key, NoneStr, utc))

RemoveData(key) == ContextCall("remove_data", key, remove_data(ctx, key, utc))

ContextNext ==
    \/ \E key \in ContextKeys, value \in ContextValues : SetVariable(key, value)
    \/ \E key \in ContextKeys : GetVariable(key)
    \/ \E key \in ContextKeys : RemoveVariable(key)
    \/ \E key \in ContextKeys, value \in ContextValues : SetData(key, value)
    \/ \E key \in ContextKeys : GetData(key)
    \/ \E key \in ContextKeys : RemoveData(key)

InitContext == ExIdle /\ EntIdle /\ LineIdle /\ ContextInit

SpecContext == InitContext /\ [][ContextNext]_vars

(***************************************************************************)
(* Data models: Agent.  success_rate and average_execution_time are kept   *)
(* as exact fractions [num, den].                                          *)
(***************************************************************************)
MaxCompleted == 5

CapabilityNames == {"python_code_generation", "new_capability", "non_existent"}

AgentCapability(name, description) == [name |-> name, description |-> description]

Capabilities ==
    {AgentCapability(n, d) : n \in CapabilityNames, d \in {"A capability", "Duplicate capability"}}

existing_names(self) == {self.capabilities[i].name : i \in 1..Len(self.capabilities)}

\* variant: the capability is appended without looking at the names
add_capability_unchecked(self, capability, t) ==
    [raised |-> FALSE,
     self |-> [self EXCEPT !.capabilities = Append(@, capability), !.updated_at = t]]

add_capability(self, capability, t) ==
    IF capability.name \in existing_names(self)
    THEN [raised |-> TRUE, exc |-> "ValueError", self |-> self]
    ELSE [raised |-> FALSE,
          self |-> [self EXCEPT !.capabilities = Append(@, capability), !.updated_at = t]]

remove_capability(self, capability_name, t) ==
    LET remaining == SelectSeq(self.capabilities, LAMBDA cap : cap.name # capability_name)
    IN  IF Len(remaining) < Len(self.capabilities)
        THEN [self |-> [self EXCEPT !.capabilities = remaining, !.updated_at = t],
              value |-> TRUE]
        ELSE [self |-> [self EXCEPT !.capabilities = remaining], value |-> FALSE]

has_capability(self, capability_name) ==
    \E i \in 1..Len(self.capabilities) : self.capabilities[i].name = capability_name

Fraction(num, den) == [num |-> num, den |-> den]

Greater(a, b) == a.num * b.den > b.num * a.den

\* int(x) for x >= 0
int(x) == x.num \div x.den

\* alpha = 0.1 is 1/10, 1 - alpha is 9/10
moving_average(average, execution_time) ==
    IF average.num = 0
    THEN Fraction(execution_time, 1)
    ELSE Fraction(execution_time * average.den + 9 * average.num, 10 * average.den)

update_performance_metrics(self, task_completed, execution_time, t) ==
    LET total == self.total_tasks_completed + 1
        earlier == int(Fraction(self.success_rate.num * (total - 1), self.success_rate.den))
        successful_tasks == IF task_completed THEN earlier + 1 ELSE earlier
    IN  [self EXCEPT !.total_tasks_completed = total,
                     !.success_rate = Fraction(successful_tasks, total),
                     !.average_execution_time = moving_average(@, execution_time),
                     !.updated_at = t]

DistinctNames(capabilities) ==
    \A i, j \in 1..Len(capabilities) :
        capabilities[i].name = capabilities[j].name => i = j

\* Agent(...) as constructed, with no task recorded yet
NewAgents ==
    {[capabilities |-> caps, total_tasks_completed |-> 0,
      success_rate |-> Fraction(0, 1), average_execution_time |-> Fraction(0, 1),
      updated_at |-> 1] :
        caps \in {c \in SeqsBetween(Capabilities, 0, 2) : DistinctNames(c)}}

AgentInit ==
    /\ utc = 1
    /\ agt \in NewAgents
    /\ agt_call = EmptyDict
    /\ TaskIdle /\ ContextIdle

AgentCall(op, args, raised, returned, after) ==
    /\ agt' = after
    /\ agt_call' = [op |-> op, args |-> args, before |-> agt, raised |-> raised,
                    returned |-> returned]
    /\ utc' = After(utc)
    /\ UNCHANGED <<task, task_call, ctx, ctx_call>>
    /\ UNCHANGED <<ex_vars, ent_vars, ln_vars>>

AddCapability(capability) ==
    LET out == add_capability(agt, capability, utc)
    IN  AgentCall("add_capability", <<capability>>, out.raised, NoneValue, out.self)

RemoveCapability(capability_name) ==
    LET out == remove_capability(agt, capability_name, utc)
    IN  AgentCall("remove_capability", <<capability_name>>, FALSE, out.value, out.self)

AgentNext ==
    \/ \E capability \in Capabilities : AddCapability(capability)
    \/ \E capability_name \in CapabilityNames : RemoveCapability(capability_name)

InitAgent == ExIdle /\ EntIdle /\ LineIdle /\ AgentInit

SpecAgent == InitAgent /\ [][AgentNext]_vars

\* the denominators of the success rates an agent is constructed with
RateDenominators == {1, 2, 10}

ExecutionTimes == {10, 25}

\* Agent(total_tasks_completed=n, success_rate=r) for 0.0 <= r <= 1.0
MeasuredAgents ==
    UNION {{[capabilities |-> <<>>, total_tasks_completed |-> n,
             success_rate |-> Fraction(num, den),
             average_execution_time |-> Fraction(31, 2), updated_at |-> 1] :
               n \in 0..MaxCompleted, num \in 0..den} : den \in RateDenominators}

MetricsInit ==
    /\ utc = 1
    /\ agt \in MeasuredAgents
    /\ agt_call = EmptyDict
    /\ TaskIdle /\ ContextIdle

UpdatePerformanceMetrics(task_completed, execution_time) ==
    /\ agt.total_tasks_completed <= MaxCompleted
    /\ AgentCall("update_performance_metrics", <<task_completed, execution_time>>, FALSE,
                 NoneValue,
                 update_performance_metrics(agt, task_completed, execution_time, utc))

MetricsNext ==
    \E task_completed \in BOOLEAN, execution_time \in ExecutionTimes :
        UpdatePerformanceMetrics(task_completed, execution_time)

InitMetrics == ExIdle /\ EntIdle /\ LineIdle /\ MetricsInit

SpecMetrics == InitMetrics /\ [][MetricsNext]_vars

(***************************************************************************)
(* Projects for the locator and the node selection: definitions at column  *)
(* 0 and indented, a name that only starts with the requested one, methods *)
(* in the class body and nested deeper                                     *)
(***************************************************************************)
MaxLocLines == 3

LocLines ==
    { Header("def", 0, "A"), Header("def", 1, "A"), Header("class", 0, "A"),
      Header("class", 1, "A"), Header("def", 0, "AB"), Header("def", 1, "m"),
      Stmt(1, NoMarks), Stmt(2, NoMarks) }

\* class A: / def f(self): / def m(): / pass
NestedMethodOnly ==
    << Header("class", 0, "A"), Header("def", 1, "f"), Header("def", 2, "m"),
       Stmt(3, NoMarks) >>

\* class A: / def f(self): / def m(): / pass / def m(self): / """doc"""
NestedAndDirectMethod ==
    << Header("class", 0, "A"), Header("def", 1, "f"), Header("def", 2, "m"),
       Stmt(3, NoMarks), Header("def", 1, "m"), Stmt(2, {"doc"}) >>

\* def A(): / def m(): / pass
FunctionWithInnerM ==
    << Header("def", 0, "A"), Header("def", 1, "m"), Stmt(2, NoMarks) >>

LocFiles ==
    {File(l) : l \in SeqsBetween(LocLines, 1, MaxLocLines) \cup CuratedFiles
                     \cup {NestedMethodOnly, NestedAndDirectMethod, FunctionWithInnerM}}
    \cup {AbsentFile}

LocRequests ==
    [entity_name : {"A"}, method_name : MethodNames, file_path : Paths \cup {NoneStr}]

LocateInit ==
    /\ fs \in {[p \in Paths |-> IF p = "a.py" THEN a ELSE b] :
                  a \in LocFiles, b \in BFiles}
    /\ traversal \in Listings
    /\ agents = [a \in AgentIds |-> FreshAgent]
    /\ clock = 1
    /\ request = [entity_name |-> "", method_name |-> NoneStr, file_path |-> NoneStr]
    /\ served_by = "nobody"
    /\ result = EmptyDict
    /\ kept = EmptyDict

\* analyze_code_entity applied once to each project and request
LocateNext ==
    /\ result = EmptyDict
    /\ \E req \in LocRequests : AnalyzeCodeEntity("agent1", req)

InitLocate == ExIdle /\ LocateInit /\ LineIdle /\ ModelsIdle

SpecLocate == InitLocate /\ [][LocateNext]_vars

(***************************************************************************)
(* Vocabulary of the properties                                            *)
(***************************************************************************)
Returned == result # EmptyDict

IsReport(r) == "confidence_score" \in DOMAIN r

AnalysisSections ==
    {"purpose_analysis", "behavior_simulation", "risk_analysis", "improvements",
     "execution_flow", "clarification_questions", "confidence_score"}

\* the file holds a class/def line for the name
Defines(file, name) ==
    /\ file.exists /\ file.readable
    /\ \E i \in 1..Len(file.lines) :
          /\ file.lines[i].kind \in {"class", "def"}
          /\ file.lines[i].indent = 0
          /\ file.lines[i].name = name

\* a definition of the requested entity exists where the request looks
Located(req) ==
    IF truthy_str(req.file_path)
    THEN Defines(fs[req.file_path], req.entity_name)
    ELSE \E p \in Paths : Defines(fs[p], req.entity_name)

ContextOf(req) ==
    load_context(fs, traversal, req.entity_name, req.method_name, req.file_path)

\* the five signals of the confidence score, for a request and its report
Signals(req, report) ==
    LET context == ContextOf(req) IN
    [found      |-> context.source_code # <<>>,
     documented |-> report.purpose_analysis.docstring_analysis # EmptyDict,
     parsed     |-> context.ast_node # NoneValue,
     imports    |-> /\ context.surrounding_context # EmptyDict
                    /\ context.surrounding_context.imports # <<>>,
     path       |-> context.file_path # ""]

SignalNames == {"found", "documented", "parsed", "imports", "path"}

SignalsLeq(s, t) == \A n \in SignalNames : s[n] => t[n]

SumOfPoints(s) ==
      (IF s.found THEN PointsFound ELSE 0)
    + (IF s.documented THEN PointsDocumented ELSE 0)
    + (IF s.parsed THEN PointsNode ELSE 0)
    + (IF s.imports THEN PointsImports ELSE 0)
    + (IF s.path THEN PointsPath ELSE 0)

(***************************************************************************)
(* C1 (SpecEntity).  When no definition of entity_name is found,           *)
(* analyze_code_entity returns the NotFound result: the error message and  *)
(* the suggestions, and none of the analysis sections.                     *)
(* The code tests `if not context` on a dict that always has nine keys, so *)
(* the NotFound branch is never taken: this formula is violated.           *)
(***************************************************************************)
C1_NotFoundResult ==
    (Returned /\ ~Located(request)) =>
        /\ DOMAIN result = {"error", "suggestions"}
        /\ result.suggestions = NotFoundSuggestions

(***************************************************************************)
(* C2 (SpecEntity).  When one analyzer fails unexpectedly, the result      *)
(* still holds the sections of the other analyzers, which complete, and a  *)
(* diagnostic section.                                                     *)
(* The purpose analyzer raises IndexError for a class matched under the    *)
(* empty name; the single try/except then drops every section: violated.   *)
(***************************************************************************)
C2_AnalyzerFailureIsolated ==
    (Returned /\ analyze_purpose(ContextOf(request)).raised) =>
        /\ (AnalysisSections \ {"purpose_analysis"}) \subseteq DOMAIN result
        /\ "error" \in DOMAIN result

(***************************************************************************)
(* C3 (SpecDet).  Every report's confidence_score is within [0, 100], and  *)
(* of two reports on the same project the one whose five signals (found,   *)
(* documented, parsed, has-imports, has-path) include the other's has a    *)
(* score at least as high.                                                 *)
(***************************************************************************)
C3_ScoreBoundedMonotone ==
    /\ IsReport(result) =>
          result.confidence_score >= 0 /\ result.confidence_score <= 100
    /\ (kept # EmptyDict /\ IsReport(kept.result) /\ IsReport(result)
        /\ SignalsLeq(Signals(kept.request, kept.result), Signals(request, result)))
       => kept.result.confidence_score <= result.confidence_score

\* two reports that differ in exactly one signal, the later one having it
C3_Witness ==
    /\ kept # EmptyDict /\ IsReport(kept.result) /\ IsReport(result)
    /\ LET s == Signals(kept.request, kept.result)
           t == Signals(request, result)
       IN /\ SignalsLeq(s, t)
          /\ Cardinality({n \in SignalNames : s[n] # t[n]}) = 1
          /\ ~s.parsed /\ t.parsed
    /\ kept.result.confidence_score < result.confidence_score

(***************************************************************************)
(* C4 (SpecEntity).  In every report confidence_score = min(100, sum of    *)
(* the points of the signals that hold): 30 located, 20 docstring, 20 tree *)
(* node, 15 imports, 15 file path.                                         *)
(* The code looks the docstring up in the context, where the purpose       *)
(* analysis never stores it, so a documented entity misses its 20 points:  *)
(* violated.                                                               *)
(***************************************************************************)
C4_ScoreIsSumOfSignals ==
    IsReport(result) =>
        result.confidence_score
            = MinOf(MaxScore, SumOfPoints(Signals(request, result)))

(***************************************************************************)
(* C8 (SpecExtract).  extract_block returns nothing when start is beyond   *)
(* the text; otherwise the start line followed by every later line up to,  *)
(* and excluding, the first non-blank, non-comment line indented no deeper *)
(* than the start line.                                                    *)
(***************************************************************************)
\* 0-based index of the line that ends the block, or the number of lines
BlockEnd(lines, start) ==
    LET ends == {j \in (start + 1)..(Len(lines) - 1) :
                    /\ lines[j + 1].kind \notin {"blank", "comment"}
                    /\ lines[j + 1].indent <= lines[start + 1].indent}
    IN IF ends = {} THEN Len(lines) ELSE Min(ends)

BlockContract ==
    IF ex_start >= Len(ex_content) THEN ex_out = <<>>
    ELSE ex_out = SubSeq(ex_content, ex_start + 1, BlockEnd(ex_content, ex_start))

OnExample == ex_pc = "done" /\ ex_content = ExampleFile /\ ex_start = 0

\* C8 as amended: on the example the block is the four lines through
\* `y = 2`, and `def g():` is excluded
C8_BlockExtraction ==
    /\ ex_pc = "done" => BlockContract
    /\ OnExample => ex_out = SubSeq(ExampleFile, 1, 4)

C8_Witness == OnExample /\ Len(ex_out) = 4 /\ ex_out[3].kind = "blank"

\* C8 as stated: on the example the block has five lines
C8_AsStated ==
    /\ ex_pc = "done" => BlockContract
    /\ OnExample => /\ Len(ex_out) = 5
                    /\ \A i \in 1..Len(ex_out) : ex_out[i].name # "g"

(***************************************************************************)
(* C9 (SpecEntity).  When the extracted source contains eval( once or      *)
(* more, the risk analysis holds exactly one critical finding: it is in    *)
(* security_issues, and it is the only element of the critical bucket.     *)
(***************************************************************************)
C9_OneCriticalForEval ==
    (IsReport(result) /\ has(ContextOf(request).source_code, "eval(")) =>
        LET ra == result.risk_analysis
            others == ra.performance_issues \o ra.correctness_issues
                      \o ra.maintainability_issues \o ra.reliability_issues
        IN /\ Len(with_severity(ra.security_issues, "critical")) = 1
           /\ with_severity(others, "critical") = <<>>
           /\ ra.severity_levels.critical
                 = with_severity(ra.security_issues, "critical")

\* two eval calls next to a high-severity finding of another category
C9_Witness ==
    /\ IsReport(result)
    /\ count(ContextOf(request).source_code, "eval(") >= 2
    /\ Len(result.risk_analysis.severity_levels.critical) = 1
    /\ result.risk_analysis.reliability_issues # <<>>

(***************************************************************************)
(* C10 (SpecDet).  On an unchanged project, two calls of                   *)
(* analyze_code_entity with the same request return the same value,        *)
(* whichever agents serve them and whatever was served in between.         *)
(***************************************************************************)
C10_Deterministic ==
    (kept # EmptyDict /\ kept.request = request) => kept.result = result

\* the same project-wide request served by two agents, with a match in
\* both files
C10_Witness ==
    /\ kept # EmptyDict /\ kept.request = request
    /\ kept.served_by # served_by
    /\ request.file_path = NoneStr
    /\ \A p \in Paths : Defines(fs[p], request.entity_name)
    /\ IsReport(result)

(***************************************************************************)
(* Line-range requests                                                     *)
(***************************************************************************)
LineReturned == ln_result # EmptyDict

\* the call addressed the file on disk, which exists and can be read
OnReadableFile ==
    /\ LineReturned
    /\ ln_file.exists /\ ln_file.readable
    /\ resolve_path(ln_args.file_path) = ln_file.path

AllDigits(s) == s # <<>> /\ \A i \in 1..Len(s) : is_digit(s[i])

\* a single integer (blanks around it are not counted against it)
SingleInteger(s) == AllDigits(strip(s))

DashAt(s) == CHOOSE k \in 1..Len(s) : s[k] = "-"

\* a-b with a and b integers
IntegerRange(s) ==
    /\ Cardinality({k \in 1..Len(s) : s[k] = "-"}) = 1
    /\ AllDigits(SubSeq(s, 1, DashAt(s) - 1))
    /\ AllDigits(SubSeq(s, DashAt(s) + 1, Len(s)))

NumberOf(s) == digits_value(strip(s), 0)

StartOf(s) ==
    IF SingleInteger(s) THEN NumberOf(s) ELSE NumberOf(SubSeq(s, 1, DashAt(s) - 1))

EndOf(s) ==
    IF SingleInteger(s) THEN NumberOf(s) ELSE NumberOf(SubSeq(s, DashAt(s) + 1, Len(s)))

WellFormedSpec(s) == SingleInteger(s) \/ IntegerRange(s)

IsLineReport(r) == "LOCATION_CONTEXT" \in DOMAIN r

IsInvalidLineSpec(r) ==
    /\ DOMAIN r = {"INVALID_LINE_NUMBER", "expected_format"}
    /\ r.expected_format = ExpectedFormat

\* "1-N" written out for N < 100
ValidRangeText(n) ==
    <<"1", "-">> \o (IF n < 10 THEN <<DigitChars[n + 1]>>
                     ELSE <<DigitChars[(n \div 10) + 1], DigitChars[(n % 10) + 1]>>)

IsLineOutOfRange(r, n) ==
    /\ DOMAIN r = {"LINE_OUT_OF_RANGE", "valid_range"}
    /\ r.valid_range = ValidRangeText(n)

\* C5: on an existing readable file, a line_number that is neither a single
\* integer nor a range a-b with a <= b (so also "5-3" and "abc") yields the
\* invalid-line-number result with the expected formats and nothing else.
C5_MalformedSpecRejected ==
    (/\ OnReadableFile
     /\ ~SingleInteger(ln_args.line_number)
     /\ ~(/\ IntegerRange(ln_args.line_number)
          /\ StartOf(ln_args.line_number) <= EndOf(ln_args.line_number)))
    => IsInvalidLineSpec(ln_result)

\* C6: every successful line report has 1 <= start <= end <= total lines for
\* the target range it reports, and a request whose end line is beyond the
\* file or before the start line gets no successful report.
C6_ReportedRangeWithinFile ==
    /\ IsLineReport(ln_result) =>
          LET loc == ln_result.LOCATION_CONTEXT
          IN  /\ WellFormedSpec(loc.target_lines)
              /\ 1 <= StartOf(loc.target_lines)
              /\ StartOf(loc.target_lines) <= EndOf(loc.target_lines)
              /\ EndOf(loc.target_lines) <= loc.total_file_lines
    /\ (/\ OnReadableFile
        /\ WellFormedSpec(ln_args.line_number)
        /\ \/ EndOf(ln_args.line_number) > Len(ln_file.lines)
           \/ EndOf(ln_args.line_number) < StartOf(ln_args.line_number))
       => ~IsLineReport(ln_result)

\* C7: on an existing file of N lines, a well-formed line_number whose start
\* line is below 1 or above N yields the out-of-range result with
\* valid_range "1-N" and no analysis.
C7_StartOutOfRange ==
    (/\ OnReadableFile
     /\ WellFormedSpec(ln_args.line_number)
     /\ \/ StartOf(ln_args.line_number) < 1
        \/ StartOf(ln_args.line_number) > Len(ln_file.lines))
    => IsLineOutOfRange(ln_result, Len(ln_file.lines))

\* "999999" on the 50-line file was answered with valid_range "1-50"
C7_Witness ==
    /\ ln_file = FiftyLineFile
    /\ OnReadableFile
    /\ ln_args.line_number = <<"9", "9", "9", "9", "9", "9">>
    /\ ln_result.valid_range = <<"1", "-", "5", "0">>

(***************************************************************************)
(* C11 (SpecEntity).  Analyzing a located class that contains a bare       *)
(* `except:` clause and has no docstring gives a report whose              *)
(* correctness_issues holds exactly one finding, of severity high, and     *)
(* whose clarification_questions include the documentation-missing prompt. *)
(***************************************************************************)
\* the block extracted for the request is a named class without a docstring
\* that contains the text `except:`
UndocumentedClassWithBareExcept(req) ==
    LET source_code == ContextOf(req).source_code
    IN  /\ Located(req)
        /\ req.entity_name # ""
        /\ source_code # <<>>
        /\ source_code[1].kind = "class"
        /\ ~(Len(source_code) > 1 /\ "doc" \in source_code[2].marks)
        /\ has(source_code, "except:")

InSeq(x, s) == \E i \in 1..Len(s) : s[i] = x

C11_BareExceptInUndocumentedClass ==
    (Returned /\ UndocumentedClassWithBareExcept(request)) =>
        /\ IsReport(result)
        /\ Len(result.risk_analysis.correctness_issues) = 1
        /\ result.risk_analysis.correctness_issues[1].severity = "high"
        /\ InSeq(QuestionNoDocs, result.clarification_questions)

\* the class was found by the project-wide search and reported
C11_Witness ==
    /\ Returned /\ UndocumentedClassWithBareExcept(request)
    /\ request.file_path = NoneStr
    /\ IsReport(result)
    /\ result.risk_analysis.correctness_issues[1].type = "Broad Exception Handling"
    /\ InSeq(QuestionNoDocs, result.clarification_questions)

(***************************************************************************)
(* C12 (SpecEntity).  When the extracted block is located but does not     *)
(* parse, analyze_code_entity still returns a full report and no error     *)
(* result: the tree node is absent, the parse error is recorded, the       *)
(* text-based findings and improvements are those of the block's text, and *)
(* the tree-dependent sections are empty or marked as unparsed.            *)
(* A `class :` line located under the empty name does not parse, and the   *)
(* naming check of the purpose analyzer raises on it: violated.            *)
(***************************************************************************)
LocatedUnparsed(req) ==
    /\ Located(req)
    /\ ContextOf(req).source_code # <<>>
    /\ ast_parse(ContextOf(req).source_code).syntax_error

DegradedReport(req, report) ==
    LET context == ContextOf(req)
        source_code == context.source_code
        ra == report.risk_analysis
    IN  /\ context.ast_node = NoneValue
        /\ "parse_error" \in DOMAIN context
        /\ ra.security_issues = analyze_security_risks(source_code)
        /\ ra.performance_issues = analyze_performance_issues(source_code)
        /\ ra.correctness_issues = analyze_correctness_issues(source_code)
        /\ ra.maintainability_issues = analyze_maintainability_issues(source_code)
        /\ ra.reliability_issues = analyze_reliability_issues(source_code)
        /\ report.improvements = suggest_improvements(context, ra)
        /\ report.purpose_analysis.api_surface = EmptyDict
        /\ report.purpose_analysis.docstring_analysis = EmptyDict
        /\ report.behavior_simulation.side_effects = <<>>
        /\ report.execution_flow.function_calls = <<>>
        /\ "parse_error" \in DOMAIN report.execution_flow

C12_UnparsedBlockDegrades ==
    (Returned /\ LocatedUnparsed(request)) =>
        /\ IsReport(result)
        /\ DegradedReport(request, result)

(***************************************************************************)
(* C13 (SpecCalls).  analyze_code_entity and the line-level analysis never *)
(* let an exception reach their caller: for every input and every internal *)
(* failure the call returns a result value.                                *)
(***************************************************************************)
\* a dict the caller can serialise, and no exception in flight
IsResultValue(r) ==
    /\ r # EmptyDict
    /\ "raised" \notin DOMAIN r
    /\ "exc" \notin DOMAIN r

C13_NoExceptionPropagates ==
    /\ Returned => IsResultValue(result)
    /\ LineReturned => IsResultValue(ln_result)

\* both calls hit an internal failure and both returned the failure result
C13_Witness ==
    /\ Returned /\ LineReturned
    /\ "traceback" \in DOMAIN result /\ result.traceback = "IndexError"
    /\ "ANALYSIS_FAILED" \in DOMAIN ln_result
    /\ ln_result.error_type \in {"TypeError", "AttributeError"}

(***************************************************************************)
(* C14 (SpecEntity).  In every report each finding contributes its         *)
(* suggestion exactly once: immediate_fixes is the suggestions of the      *)
(* findings rated critical or high, refactoring_opportunities the          *)
(* suggestions of all other findings, and the two lists together are as    *)
(* long as the five category lists.                                        *)
(***************************************************************************)
CategoryFindings(report) ==
    report.risk_analysis.security_issues
    \o report.risk_analysis.performance_issues
    \o report.risk_analysis.correctness_issues
    \o report.risk_analysis.maintainability_issues
    \o report.risk_analysis.reliability_issues

Urgent(f) == f.severity \in {"critical", "high"}

C14_SuggestionsOncePerFinding ==
    (Returned /\ IsReport(result)) =>
        LET findings == CategoryFindings(result)
            improvements == result.improvements
        IN  /\ improvements.immediate_fixes
                 = suggestions_of(SelectSeq(findings, Urgent))
            /\ improvements.refactoring_opportunities
                 = suggestions_of(SelectSeq(findings, LAMBDA f : ~Urgent(f)))
            /\ Len(improvements.immediate_fixes)
                 + Len(improvements.refactoring_opportunities) = Len(findings)

\* a report with an urgent and a non-urgent finding
C14_Witness ==
    /\ Returned /\ IsReport(result)
    /\ Len(result.improvements.immediate_fixes) >= 1
    /\ Len(result.improvements.refactoring_opportunities) >= 1
    /\ Len(CategoryFindings(result)) >= 2

(***************************************************************************)
(* C15 (SpecEntity).  In every report the severity map partitions the      *)
(* findings of the five category lists: each finding is in exactly one of  *)
(* the buckets critical, high, medium, low, and the buckets hold nothing   *)
(* else.                                                                   *)
(***************************************************************************)
SeverityNames == {"critical", "high", "medium", "low"}

Occurrences(x, s) == Cardinality({i \in 1..Len(s) : s[i] = x})

BucketsHolding(f, levels) == {sev \in SeverityNames : InSeq(f, levels[sev])}

C15_SeverityMapPartitionsFindings ==
    (Returned /\ IsReport(result)) =>
        LET findings == CategoryFindings(result)
            levels == result.risk_analysis.severity_levels
        IN  /\ DOMAIN levels = SeverityNames
            /\ \A i \in 1..Len(findings) :
                 /\ Cardinality(BucketsHolding(findings[i], levels)) = 1
                 /\ \A sev \in BucketsHolding(findings[i], levels) :
                      Occurrences(findings[i], levels[sev])
                        = Occurrences(findings[i], findings)
            /\ \A sev \in SeverityNames : \A k \in 1..Len(levels[sev]) :
                 InSeq(levels[sev][k], findings)

\* a report whose findings fill two different buckets
C15_Witness ==
    /\ Returned /\ IsReport(result)
    /\ Cardinality({sev \in SeverityNames :
                      result.risk_analysis.severity_levels[sev] # <<>>}) >= 2
    /\ Len(CategoryFindings(result)) >= 2

(***************************************************************************)
(* C16 (SpecTask).  Task.increment_retry succeeds only when the status is  *)
(* FAILED or TIMEOUT and retry_count < max_retries: it then raises         *)
(* retry_count by exactly one, sets the status to PENDING and clears       *)
(* started_at and completed_at; in every other state it raises and leaves  *)
(* the task unchanged.                                                     *)
(***************************************************************************)
TaskCalled(op) == task_call # EmptyDict /\ task_call.op = op

C16_IncrementRetry ==
    TaskCalled("increment_retry") =>
        LET before == task_call.before
        IN  IF before.status \in {"failed", "timeout"}
               /\ before.retry_count < before.max_retries
            THEN /\ ~task_call.raised
                 /\ task.retry_count = before.retry_count + 1
                 /\ task.status = "pending"
                 /\ task.started_at = NoneOpt
                 /\ task.completed_at = NoneOpt
            ELSE /\ task_call.raised
                 /\ task = before

\* a started, failed task is retried and loses both timestamps
C16_Witness ==
    /\ TaskCalled("increment_retry")
    /\ ~task_call.raised
    /\ task_call.before.status = "failed"
    /\ task_call.before.started_at # NoneOpt
    /\ task_call.before.completed_at # NoneOpt
    /\ task.retry_count = 1
    /\ task.started_at = NoneOpt

ContextCalled(ops) == ctx_call # EmptyDict /\ ctx_call.op \in ops

C18_VersionCountsChanges ==
    ctx_call # EmptyDict =>
        LET before == ctx_call.before
            key == ctx_call.key
        IN  /\ ContextCalled({"set_variable", "set_data"}) =>
                 ctx.version = before.version + 1
            /\ ContextCalled({"remove_variable"}) =>
                 ctx.version = before.version
                     + (IF key \in DOMAIN before.variables THEN 1 ELSE 0)
            /\ ContextCalled({"remove_data"}) =>
                 ctx.version = before.version
                     + (IF key \in DOMAIN before.data THEN 1 ELSE 0)
            /\ ContextCalled({"get_variable", "get_data"}) =>
                 ctx.version = before.version
            /\ ctx.version >= before.version

\* a key that was set earlier is removed, and the remove is counted
C18_Witness ==
    /\ ContextCalled({"remove_variable"})
    /\ ctx_call.key = "test_var"
    /\ ctx_call.returned = TRUE
    /\ ctx_call.before.version = 2
    /\ ctx.version = 3
    /\ "test_var" \notin DOMAIN ctx.variables

(***************************************************************************)
(* C19 (SpecAgent).  For an agent whose capability names are pairwise      *)
(* distinct, the names stay pairwise distinct after any sequence of        *)
(* add_capability and remove_capability calls: add_capability with an      *)
(* existing name raises and leaves the list unchanged, with a new name it  *)
(* makes has_capability true for it, and remove_capability returns true    *)
(* exactly when the name was present and makes has_capability false.       *)
(***************************************************************************)
AgentCalled(op) == agt_call # EmptyDict /\ agt_call.op = op

NamePresent(capabilities, name) ==
    Cardinality({i \in 1..Len(capabilities) : capabilities[i].name = name}) >= 1

C19_CapabilityNamesStayDistinct ==
    /\ agt # EmptyDict => DistinctNames(agt.capabilities)
    /\ AgentCalled("add_capability") =>
         LET before == agt_call.before
             capability == agt_call.args[1]
         IN  IF NamePresent(before.capabilities, capability.name)
             THEN agt_call.raised /\ agt.capabilities = before.capabilities
             ELSE /\ ~agt_call.raised
                  /\ has_capability(agt, capability.name)
                  /\ agt.capabilities = Append(before.capabilities, capability)
    /\ AgentCalled("remove_capability") =>
         LET before == agt_call.before
             name == agt_call.args[1]
         IN  /\ agt_call.returned = NamePresent(before.capabilities, name)
             /\ ~has_capability(agt, name)

\* a capability is added again under a name the agent already has
C19_Witness ==
    /\ AgentCalled("add_capability")
    /\ agt_call.raised
    /\ agt_call.args[1].description = "Duplicate capability"
    /\ Len(agt.capabilities) = 2
    /\ agt.capabilities[2].name = agt_call.args[1].name
    /\ agt.capabilities[2].description = "A capability"

(***************************************************************************)
(* C20 (SpecMetrics).  For any agent state with total_tasks_completed >= 0 *)
(* and success_rate in [0, 1), update_performance_metrics(True, t) raises  *)
(* total_tasks_completed by exactly one and yields a success_rate strictly *)
(* greater than before; a call with task_completed False also raises the   *)
(* count by exactly one.                                                   *)
(***************************************************************************)
C20_SuccessRaisesRate ==
    AgentCalled("update_performance_metrics") =>
        LET before == agt_call.before
            task_completed == agt_call.args[1]
        IN  (before.total_tasks_completed >= 0
               /\ before.success_rate.num >= 0
               /\ before.success_rate.num < before.success_rate.den) =>
                /\ agt.total_tasks_completed = before.total_tasks_completed + 1
                /\ task_completed => Greater(agt.success_rate, before.success_rate)

(***************************************************************************)
(* C21 (SpecLocate).  The locator matches a definition line whatever its   *)
(* leading whitespace: an indented class or function named entity_name is  *)
(* located like one in column 0, and a definition whose name only starts   *)
(* with entity_name is never matched.                                      *)
(* The pattern anchors the keyword with `^` and allows no whitespace       *)
(* before it, so an indented definition is not located: violated.          *)
(***************************************************************************)
\* the file holds a class/def line for exactly this name, at any indentation
DefinesAtAnyIndent(file, name) ==
    /\ file.exists /\ file.readable
    /\ \E i \in 1..Len(file.lines) :
          /\ file.lines[i].kind \in {"class", "def"}
          /\ file.lines[i].name = name

DefinedWhereSearched(req) ==
    IF truthy_str(req.file_path)
    THEN DefinesAtAnyIndent(fs[req.file_path], req.entity_name)
    ELSE \E p \in Paths : DefinesAtAnyIndent(fs[p], req.entity_name)

C21_LocatedAtAnyIndentation ==
    (Returned /\ request.entity_name # "") =>
        ((ContextOf(request).source_code # <<>>) <=> DefinedWhereSearched(request))

(***************************************************************************)
(* C22 (SpecLocate).  When file_path is given only that file is searched:  *)
(* without a match there the entity is not located, even when another file *)
(* of the project defines it.  Without file_path the result comes from the *)
(* first file in traversal order that holds a match, and within a file     *)
(* from the first matching definition in line order; matches of different  *)
(* files are never merged.                                                 *)
(***************************************************************************)
\* 0-based number of the first column-0 definition line of the name
FirstDefinition(file, name) ==
    Min({i \in 1..Len(file.lines) :
           /\ file.lines[i].kind \in {"class", "def"}
           /\ file.lines[i].indent = 0
           /\ file.lines[i].name = name}) - 1

\* the context is the block of the first definition of the name in the file
TakenFrom(context, path, name) ==
    /\ context.file_path = path
    /\ context.start_line = FirstDefinition(fs[path], name)
    /\ context.source_code
         = extract_full_definition(fs[path].lines, FirstDefinition(fs[path], name))

NothingTaken(context) == context.source_code = <<>> /\ context.file_path = ""

DirectMethods(code, method_name) ==
    {j \in 2..Len(code) :
        /\ code[j].kind = "def" /\ code[j].name = method_name
        /\ \A k \in 2..(j - 1) :
              is_opener(code[k]) => \E m \in (k + 1)..j : code[m].indent <= code[k].indent}

\* the located block parses and its tree holds the entity
NodeSelected(context) ==
    /\ context.source_code # <<>>
    /\ "parse_error" \notin DOMAIN context
    /\ context.ast_node # NoneValue

C23_MethodNodeSelection ==
    (Returned /\ request.entity_name # "" /\ NodeSelected(ContextOf(request))) =>
        LET context == ContextOf(request)
            code == code_lines(context.source_code)
            node == context.ast_node
            direct == DirectMethods(code, request.method_name)
        IN  /\ IsReport(result)
            /\ IF context.match_type = "class" /\ request.method_name # NoneStr
                  /\ direct # {}
               THEN /\ node.line \in direct
                    /\ node.kind = "def" /\ node.name = request.method_name
               ELSE /\ node.line = 1
                    /\ node.kind = context.match_type
                    /\ node.name = request.entity_name

\* the class holds m both inside another method and in its own body: the
\* one in its own body is selected
C23_Witness ==
    /\ Returned
    /\ request.method_name = "m"
    /\ ContextOf(request).source_code = NestedAndDirectMethod
    /\ ContextOf(request).ast_node.line = 5
    /\ ContextOf(request).ast_node.name = "m"
    /\ IsReport(result)

(***************************************************************************)
(* C24 (SpecLine).  In a successful line-range report, with context_start  *)
(* = max(1, start_line - window) and context_end = min(total_file_lines,   *)
(* end_line + window), lines_before is exactly the lines context_start ..  *)
(* start_line - 1, target_lines exactly start_line .. end_line and         *)
(* lines_after exactly end_line + 1 .. context_end, so that together they  *)
(* hold every line of context_start .. context_end once, in ascending      *)
(* order.                                                                  *)
(* The report keeps at most ten lines before and ten after: violated.      *)
(***************************************************************************)
\* the rendered lines are the lines a..b of the file, with their numbers
AreFileLines(rendered, a, b) ==
    /\ Len(rendered) = Max2(0, b - a + 1)
    /\ \A k \in 1..Len(rendered) :
          /\ (a + k - 1) \in 1..Len(ln_file.lines)
          /\ rendered[k] = render_line(a + k - 1, ln_file.lines[a + k - 1])

RequestedRange == parse_line_number(ln_args.line_number).value

RequestedWindow == arg(ln_args, "context_lines", DefaultContextLines)

C24_ContextBucketsCoverWindow ==
    (LineReturned /\ IsLineReport(ln_result)) =>
        LET start_line == RequestedRange.start_line
            end_line == RequestedRange.end_line
            context_start == Max2(1, start_line - RequestedWindow)
            context_end == MinOf(Len(ln_file.lines), end_line + RequestedWindow)
            shown == ln_result.CODE_CONTEXT
        IN  /\ AreFileLines(shown.lines_before, context_start, start_line - 1)
            /\ AreFileLines(shown.target_lines, start_line, end_line)
            /\ AreFileLines(shown.lines_after, end_line + 1, context_end)

(***************************************************************************)
(* C25 (SpecLine).  The context window of the line-range analysis is       *)
(* always within [5, 100] and is 20 when none is requested: a requested    *)
(* window outside the interval (0, 1000) is never used as given to compute *)
(* context_start and context_end.                                          *)
(* The handler takes context_lines as given, the limits exist only in the  *)
(* tool's schema: violated.                                                *)
(***************************************************************************)
MinContextLines == 5

MaxContextLines == 100

\* the reported context range is the one a window w gives
RangeOfWindow(w) ==
    range_text(Max2(1, RequestedRange.start_line - w),
               MinOf(Len(ln_file.lines), RequestedRange.end_line + w))

C25_WindowWithinLimits ==
    (LineReturned /\ IsLineReport(ln_result)) =>
        /\ \E w \in MinContextLines..MaxContextLines :
              ln_result.LOCATION_CONTEXT.context_range = RangeOfWindow(w)
        /\ "context_lines" \notin DOMAIN ln_args =>
              ln_result.LOCATION_CONTEXT.context_range = RangeOfWindow(DefaultContextLines)

(***************************************************************************)
(* C26 (SpecLine).  The line-range verdict is a decision table evaluated   *)
(* in this order: attention-needed when the number of null-safety risky    *)
(* operations is nonzero, otherwise risky-code when the target lines hold  *)
(* `!!`, otherwise pass.  So target code with `!!` never gets the pass     *)
(* verdict and target code without it always does, whatever the project    *)
(* kind.                                                                   *)
(***************************************************************************)
ReportedTargetCode == code_of(ln_result.CODE_CONTEXT.target_lines)

ReportedNullRisks == Len(ln_result.RISK_ASSESSMENT.null_safety.risky_operations)

C26_VerdictDecisionTable ==
    (LineReturned /\ IsLineReport(ln_result)) =>
        LET verdict == ln_result.ENGINEERS_VERDICT
            asserted == \E i \in 1..Len(ReportedTargetCode) :
                            "!!" \in Substrings(ReportedTargetCode[i])
        IN  /\ verdict = IF ReportedNullRisks > 0 THEN VerdictAttention(ReportedNullRisks)
                         ELSE IF asserted THEN VerdictRisky
                         ELSE VerdictPass
            /\ asserted <=> verdict # VerdictPass

\* `!!` in the target lines of a file analysed as a project kind without
\* null-safety rules: the second row of the table decides
C26_Witness ==
    /\ LineReturned /\ IsLineReport(ln_result)
    /\ ln_result.LOCATION_CONTEXT.project_type = "spring_boot"
    /\ ReportedNullRisks = 0
    /\ ReportedTargetCode = <<BangText>>
    /\ ln_result.ENGINEERS_VERDICT = VerdictRisky

(***************************************************************************)
(* C27 (SpecEntity).  The documentation-missing question is asked exactly  *)
(* when the located entity has no docstring: an entity whose docstring was *)
(* found by the purpose analysis gets neither that question nor the        *)
(* add-a-docstring documentation improvement.                              *)
(* Both are decided on context["docstring_analysis"], a key the context    *)
(* never holds, so documented entities get both: violated.                 *)
(***************************************************************************)
AddDocstringImprovement ==
    "Add comprehensive docstring with purpose, parameters, and return values"

C27_DocsQuestionOnlyWithoutDocstring ==
    (Returned /\ IsReport(result)) =>
        LET documented == result.purpose_analysis.docstring_analysis # EmptyDict
        IN  /\ InSeq(QuestionNoDocs, result.clarification_questions) <=> ~documented
            /\ documented =>
                 ~InSeq(AddDocstringImprovement,
                        result.improvements.documentation_improvements)

(***************************************************************************)
(* C28 (SpecRetry).  Starting from a task with 0 <= retry_count <=         *)
(* max_retries, after any sequence of Task operations retry_count <=       *)
(* max_retries still holds, retry_count never decreases, and at most       *)
(* max_retries - retry_count further increment_retry calls succeed: the    *)
(* remaining budget max_retries - retry_count is never negative, only a    *)
(* successful increment_retry changes it, and each one lowers it by one.   *)
(***************************************************************************)
RetryBudget(t) == t.max_retries - t.retry_count

C28_RetryBudgetBounded ==
    /\ 0 <= task.retry_count
    /\ task.retry_count <= task.max_retries
    /\ task_call # EmptyDict =>
         LET before == task_call.before
         IN  /\ task.max_retries = before.max_retries
             /\ task.retry_count >= before.retry_count
             /\ RetryBudget(task) =
                  IF task_call.op = "increment_retry" /\ ~task_call.raised
                  THEN RetryBudget(before) - 1
                  ELSE RetryBudget(before)

\* the last retry has been used: the task failed again afterwards and a
\* further increment_retry is refused
C28_Witness ==
    /\ TaskCalled("increment_retry")
    /\ task_call.raised
    /\ task.status = "failed"
    /\ task.max_retries = MaxRetries
    /\ task.retry_count = task.max_retries
    /\ task.assigned_agent_id # NoneOpt

(***************************************************************************)
(* C29 (SpecFreshTask).  For a task created in the default PENDING status  *)
(* with no timestamps, after any sequence of Task operations: whenever the *)
(* status is terminal (COMPLETED, FAILED, CANCELLED, TIMEOUT) completed_at *)
(* is set; right after fail() the status is FAILED and the stored result   *)
(* is the supplied one or, without one, a result with success false; and   *)
(* right after a successful increment_retry the status is PENDING with     *)
(* started_at and completed_at both unset.                                 *)
(***************************************************************************)
C29_TerminalStatusIsStamped ==
    /\ task.status \in TerminalStatus => task.completed_at # NoneOpt
    /\ TaskCalled("fail") =>
         /\ task.status = "failed"
         /\ task.result # NoneOpt
         /\ IF task_call.args[2] # NoneOpt
            THEN task.result = task_call.args[2]
            ELSE task.result[1].success = FALSE
    /\ (TaskCalled("increment_retry") /\ ~task_call.raised) =>
         /\ task.status = "pending"
         /\ task.started_at = NoneOpt
         /\ task.completed_at = NoneOpt

\* a task that failed and was retried (it still holds the earlier result,
\* its timestamps were cleared) fails again and is stamped anew
C29_Witness ==
    /\ TaskCalled("fail")
    /\ task_call.args[2] = NoneOpt
    /\ task_call.before.result # NoneOpt
    /\ task_call.before.status = "pending"
    /\ task_call.before.retry_count = 1
    /\ task_call.before.completed_at = NoneOpt
    /\ task.status = "failed"
    /\ task.completed_at # NoneOpt

(***************************************************************************)
(* C30 (SpecDet).  analyze_code_entity leaves the agent's own state        *)
(* unchanged: after any number of invocations, successful or failing,      *)
(* project_root, loaded_modules and analysis_cache of every agent are what *)
(* the constructor set, and a request served again by the same agent       *)
(* returns what it returned before, whatever that agent served earlier.    *)
(***************************************************************************)
C30_AgentStateUnchanged ==
    /\ \A a \in AgentIds :
          /\ agents[a].project_root = FreshAgent.project_root
          /\ agents[a].loaded_modules = EmptyDict
          /\ agents[a].analysis_cache = EmptyDict
    /\ (kept # EmptyDict /\ kept.served_by = served_by /\ kept.request = request)
          => kept.result = result

\* one agent produced a report and then served a different request, which
\* failed
C30_Witness ==
    /\ kept # EmptyDict
    /\ kept.served_by = served_by
    /\ kept.request # request
    /\ IsReport(kept.result)
    /\ Returned /\ ~IsReport(result)
    /\ agents[served_by] = FreshAgent

=============================================================================
